---- MODULE Spec2Model ----
(***************************************************************************)
(* Model of the Lightning-Node repository.                                 *)
(*                                                                         *)
(* The notification gate: BlueskyPostController                            *)
(* (src/bluesky_post_controller.py), with its state file.                  *)
(* The node process (src/lightning_bluesky.py): the outbound throttle      *)
(* BlueskyRateLimiter, the strike history, the storm session globals, the  *)
(* interrupt handler, the periodic summary check and the publish threads.  *)
(*                                                                         *)
(* Time is in seconds, as in the code.  The window lengths are the code's  *)
(* literals; the gate's clock and event timestamps range over the finite   *)
(* set Times, which holds the boundary values of every window.             *)
(***************************************************************************)
EXTENDS Integers, Sequences, FiniteSets, TLC

VARIABLES
    cfg,         \* constructor arguments of the controller (lines 43-49)
    clock,       \* value the injected time_fn returns (line 50)
    started_at,  \* self._started_at (line 52)
    state,       \* self._state (line 53)
    file,        \* content of state_path on disk
    last,        \* the most recent public call and what it returned
    lastRec,     \* history: per dedupe key, the time of the latest record_post
    only_records,\* history: this process has made no should_post call yet
    from_records,\* history: the process before this one made none at all
    tmp,         \* content of state_path + ".tmp" on disk (line 186)
    saving,      \* position of the controller inside _save_state
    wall,        \* time.time() / datetime.utcnow() of the node process
    limiter,     \* constructor arguments of the BlueskyRateLimiter
    post_times,  \* its post_times list
    admitted,    \* history: every timestamp can_post has allowed
    STRIKE_HISTORY,
    STORM_ACTIVE,
    STORM_START,
    STORM_END,
    LAST_SUMMARY_POSTED,
    workers,     \* publish threads started and not yet run
    sent,        \* history: the publish attempts made (client.send_post)
    summaries,   \* history: the calls of generate_and_post_storm_summary
    did,         \* the most recent step of the node process
    threads      \* per thread in flight: its position and its local variables

gate_vars ==
    <<cfg, clock, started_at, state, file, last, lastRec, only_records, from_records>>

gate_vars_but_file ==
    <<cfg, clock, started_at, state, last, lastRec, only_records, from_records>>

save_vars == <<tmp, saving>>

node_vars ==
    <<wall, limiter, post_times, admitted, STRIKE_HISTORY, STORM_ACTIVE,
      STORM_START, STORM_END, LAST_SUMMARY_POSTED, workers, sent, summaries, did>>

vars == <<gate_vars, save_vars, node_vars, threads>>

----------------------------------------------------------------------------
(* Program constants: the literals of should_post and _prune.              *)

W15 == 900

WHour == 3600

WDay == 86400

KeyTTL == 604800

(* event.get("timestamp") is None: the event carries no timestamp.         *)
NoTimestamp == -1

(* Bound of the model: record_post is cut off at this list length.         *)
MaxPosts == 2

(* Values of the clock and of event timestamps.                            *)
Times == {0, 602, 900, 1802, 3600, 86401, 605403}

(* Dedupe keys an event can resolve to (line 87).                          *)
Keys == {"lightning", "storm"}

(* json.dump(..., sort_keys=True) writes the keys in this order.           *)
KeyOrder == <<"lightning", "storm">>

(* Events: type and dedupe_key are "" when the field is absent.            *)
EventShapes ==
    { [type |-> "lightning", dedupe_key |-> ""],
      [type |-> "lightning", dedupe_key |-> "storm"] }

(* Timestamps an event carries: none, the falsy 0, or a fixed time of its  *)
(* own (a stale event once the clock has passed it).                       *)
EventStamps == {NoTimestamp, 0, 602}

Events ==
    { [type |-> sh.type, dedupe_key |-> sh.dedupe_key, timestamp |-> t] :
        sh \in EventShapes, t \in EventStamps }

ClockEvents == { ev \in Events : ev.timestamp = NoTimestamp }

(* Constructor argument sets the model runs under.                         *)
Configs ==
    { [startup_grace_s |-> 900, max_per_15m |-> 1, max_per_hour |-> 2,
       max_per_day |-> 2, dedupe_window_s |-> 1200, dry_run |-> FALSE],
      [startup_grace_s |-> 0, max_per_15m |-> 1, max_per_hour |-> 2,
       max_per_day |-> 2, dedupe_window_s |-> 1200, dry_run |-> FALSE],
      [startup_grace_s |-> 900, max_per_15m |-> 1, max_per_hour |-> 2,
       max_per_day |-> 2, dedupe_window_s |-> 1200, dry_run |-> TRUE] }

----------------------------------------------------------------------------
(* Helpers.                                                                *)

MinOf(S) == CHOOSE x \in S : \A y \in S : x <= y

Max0(x) == IF x > 0 THEN x ELSE 0

SeqValues(q) == { q[i] : i \in DOMAIN q }

EmptyMap == [k \in {} |-> 0]

(* The dict {post_timestamps: [], last_post_by_key: {}, last_post_at: 0}.  *)
EmptyState ==
    [post_timestamps |-> <<>>, last_post_by_key |-> EmptyMap, last_post_at |-> 0]

MissingFile ==
    [exists |-> FALSE, post_timestamps |-> <<>>, last_post_by_key |-> <<>>,
     last_post_at |-> 0]

(* now = int(event.get("timestamp") or self._time()): a timestamp of 0 is  *)
(* falsy and replaced by the clock, like an absent one.                    *)
NowOf(ev, clk) ==
    IF ev.timestamp = NoTimestamp \/ ev.timestamp = 0 THEN clk ELSE ev.timestamp

(* str(event.get("dedupe_key") or event.get("type") or "event")            *)
DedupeKey(ev) ==
    IF ev.dedupe_key # "" THEN ev.dedupe_key
    ELSE IF ev.type # "" THEN ev.type
    ELSE "event"

----------------------------------------------------------------------------
(* Internals of the controller, as operators over the _state dict s.       *)

CountSinceStrict(s, now, window_s) ==
    Cardinality({ i \in DOMAIN s.post_timestamps :
                    s.post_timestamps[i] > now - window_s })

(* _count_since: number of recorded timestamps ts with ts >= now - window. *)
CountSince(s, now, window_s) ==
    Cardinality({ i \in DOMAIN s.post_timestamps :
                    s.post_timestamps[i] >= now - window_s })

RetryAfterUnfiltered(s, now, window_s) ==
    IF s.post_timestamps = <<>> THEN 0
    ELSE window_s - (now - MinOf(SeqValues(s.post_timestamps)))

(* _retry_after: window - (now - oldest timestamp in the window), >= 0.    *)
RetryAfter(s, now, window_s) ==
    LET in_window == { ts \in SeqValues(s.post_timestamps) : ts >= now - window_s }
    IN  IF in_window = {} THEN 0
        ELSE Max0(window_s - (now - MinOf(in_window)))

PruneHour(s, now) ==
    LET lpk  == s.last_post_by_key
        kept == { k \in DOMAIN lpk : lpk[k] >= now - KeyTTL }
    IN  [s EXCEPT
           !.post_timestamps =
               SelectSeq(s.post_timestamps, LAMBDA ts : ts >= now - WHour),
           !.last_post_by_key = [k \in kept |-> lpk[k]]]

(* _prune: keep timestamps of the last 24 h and keys of the last 7 days.   *)
Prune(s, now) ==
    LET lpk  == s.last_post_by_key
        kept == { k \in DOMAIN lpk : lpk[k] >= now - KeyTTL }
    IN  [s EXCEPT
           !.post_timestamps =
               SelectSeq(s.post_timestamps, LAMBDA ts : ts >= now - WDay),
           !.last_post_by_key = [k \in kept |-> lpk[k]]]

Decision(allow, reason, retry_after_s) ==
    [allow |-> allow, reason |-> reason, retry_after_s |-> retry_after_s]

GraceRetryElapsed(c, started, now) == now - started

(* retry_after_s of a startup_grace denial (line 80).                      *)
GraceRetry(c, started, now) == c.startup_grace_s - (now - started)

(* last_ts = int(last_by_key.get(dedupe_key) or 0), line 89.               *)
LastTs(s, key) ==
    IF key \in DOMAIN s.last_post_by_key THEN s.last_post_by_key[key] ELSE 0

(* should_post after the startup-grace check: lines 83-110 on the pruned   *)
(* state p.                                                                *)
GateDecision(p, c, key, now) ==
    LET last_ts == LastTs(p, key)
    IN  IF last_ts # 0 /\ (now - last_ts) < c.dedupe_window_s
          THEN Decision(FALSE, "dedupe_window", c.dedupe_window_s - (now - last_ts))
        ELSE IF CountSince(p, now, W15) >= c.max_per_15m
          THEN Decision(FALSE, "rate_limit_15m", RetryAfter(p, now, W15))
        ELSE IF CountSince(p, now, WHour) >= c.max_per_hour
          THEN Decision(FALSE, "rate_limit_hour", RetryAfter(p, now, WHour))
        ELSE IF CountSince(p, now, WDay) >= c.max_per_day
          THEN Decision(FALSE, "rate_limit_day", RetryAfter(p, now, WDay))
        ELSE Decision(TRUE, "ok", 0)

(* should_post, lines 68-110: the PostDecision it returns.                 *)
ShouldPostDecision(s, c, started, key, now) ==
    IF c.dry_run THEN Decision(FALSE, "dry_run", 0)
    ELSE IF now - started < c.startup_grace_s
      THEN Decision(FALSE, "startup_grace", GraceRetry(c, started, now))
    ELSE GateDecision(Prune(s, now), c, key, now)

RecordStateStaleLastAt(s, key, now) ==
    [post_timestamps  |-> Append(s.post_timestamps, now),
     last_post_by_key |->
        [k \in DOMAIN s.last_post_by_key \cup {key} |->
            IF k = key THEN now ELSE s.last_post_by_key[k]],
     last_post_at     |-> s.last_post_at]

(* record_post, lines 117-126: the _state it leaves.                       *)
RecordState(s, key, now) ==
    [post_timestamps  |-> Append(s.post_timestamps, now),
     last_post_by_key |->
        [k \in DOMAIN s.last_post_by_key \cup {key} |->
            IF k = key THEN now ELSE s.last_post_by_key[k]],
     last_post_at     |-> now]

RecordOnAllow(s, c, started, key, now) ==
    IF c.dry_run \/ now - started < c.startup_grace_s THEN s
    ELSE IF GateDecision(Prune(s, now), c, key, now).allow
      THEN RecordState(Prune(s, now), key, now)
    ELSE Prune(s, now)

(* should_post, lines 68-110: the _state it leaves (pruned at line 84      *)
(* unless it returned at line 72 or 77).                                   *)
ShouldPostState(s, c, started, key, now) ==
    IF c.dry_run \/ now - started < c.startup_grace_s THEN s
    ELSE Prune(s, now)

SavePayloadNoKeys(s) ==
    [exists |-> TRUE, post_timestamps |-> s.post_timestamps,
     last_post_by_key |-> <<>>, last_post_at |-> s.last_post_at]

(* _save_state, lines 188-197: the JSON object written over state_path,    *)
(* its last_post_by_key as the key-sorted list of "key": value members.    *)
SavePayload(s) ==
    LET present == SelectSeq(KeyOrder, LAMBDA k : k \in DOMAIN s.last_post_by_key)
    IN  [exists |-> TRUE,
         post_timestamps  |-> s.post_timestamps,
         last_post_by_key |->
            [i \in DOMAIN present |-> <<present[i], s.last_post_by_key[present[i]]>>],
         last_post_at     |-> s.last_post_at]

(* File contents.  A file that json.load parses to a dict is a record of   *)
(* its members; any other content is a record holding its text.  A dict    *)
(* with a member of the wrong type carries the field ill_typed, which says *)
(* what is wrong (the well-typed part stays in the other fields).          *)
EmptyText == [exists |-> TRUE, text |-> ""]

PartialText == [exists |-> TRUE, text |-> "{\"last_post_at\": 0, \"last_po"]

NotJson == [exists |-> TRUE, text |-> "not json"]

NotAnObject == [exists |-> TRUE, text |-> "[1, 2]"]

(* "post_timestamps": null; "post_timestamps": ["x"];                      *)
(* "last_post_by_key": []; "last_post_by_key": {"storm": "x"}.             *)
IllTypedKinds ==
    {"timestamps_not_list", "timestamp_not_int", "keys_not_dict",
     "storm_value_not_int"}

IllTypedFiles ==
    { [exists |-> TRUE, post_timestamps |-> <<>>, last_post_by_key |-> <<>>,
       last_post_at |-> 0, ill_typed |-> k] : k \in IllTypedKinds }

(* json.load succeeds and isinstance(data, dict), lines 172-173.           *)
IsJsonObject(f) == f.exists /\ "text" \notin DOMAIN f

IllTyped(x) == "ill_typed" \in DOMAIN x

LoadStateNoKeys(f) ==
    IF f.exists
      THEN [post_timestamps |-> f.post_timestamps, last_post_by_key |-> EmptyMap,
            last_post_at |-> f.last_post_at]
    ELSE EmptyState

(* _load_state, lines 168-182: the dict parsed from the file, returned as  *)
(* it is (no member is checked), or the empty state when there is no file, *)
(* json.load raises, or the JSON value is not a dict.                      *)
LoadState(f) ==
    IF IsJsonObject(f)
      THEN LET members == f.last_post_by_key
               keys    == { members[i][1] : i \in DOMAIN members }
               data    == [post_timestamps  |-> f.post_timestamps,
                           last_post_by_key |->
                              [k \in keys |->
                                 (CHOOSE m \in SeqValues(members) : m[1] = k)[2]],
                           last_post_at     |-> f.last_post_at]
           IN  IF IllTyped(f)
                 THEN [post_timestamps  |-> data.post_timestamps,
                       last_post_by_key |-> data.last_post_by_key,
                       last_post_at     |-> data.last_post_at,
                       ill_typed        |-> f.ill_typed]
               ELSE data
    ELSE EmptyState

(* The steps of _save_state on the disk d = [live, tmp]: line 195 opens    *)
(* the temporary file for writing, which empties it; line 196 writes the   *)
(* payload to it, line 197 renames it over the live file.                  *)
SaveOpenInPlace(d) == [d EXCEPT !.live = EmptyText]

SaveOpen(d) == [d EXCEPT !.tmp = EmptyText]

SaveDumpPart(d) == [d EXCEPT !.tmp = PartialText]

SaveDump(d, s) == [d EXCEPT !.tmp = SavePayload(s)]

SaveReplace(d) == [live |-> d.tmp, tmp |-> MissingFile]

(* The exception a call ends with instead of returning a decision.         *)
Raises == Decision(FALSE, "exception", 0)

(* should_post raises: past the dry-run and grace returns, _prune or the   *)
(* dedupe lookup meets the ill-typed member (lines 158, 166, 89).          *)
ShouldPostRaises(s, c, started, now) ==
    /\ IllTyped(s)
    /\ ~c.dry_run
    /\ now - started >= c.startup_grace_s

(* The _state a raising should_post leaves: line 159 has pruned the        *)
(* timestamps unless line 158 raised.                                      *)
ShouldPostRaisedState(s, now) ==
    IF s.ill_typed \in {"timestamps_not_list", "timestamp_not_int"} THEN s
    ELSE [s EXCEPT !.post_timestamps =
                      SelectSeq(s.post_timestamps, LAMBDA ts : ts >= now - WDay)]

(* record_post raises: at line 121 (append on a non-list), at line 124     *)
(* (item assignment on a non-dict) or in _save_state (int() of a           *)
(* non-integer entry, lines 189-190; the entry of "storm" is overwritten   *)
(* by a record_post for that key).                                         *)
RecordPostRaises(s, key) ==
    /\ IllTyped(s)
    /\ ~(s.ill_typed = "storm_value_not_int" /\ key = "storm")

(* The _state a raising record_post leaves.                                *)
RecordPostRaisedState(s, key, now) ==
    CASE s.ill_typed = "timestamps_not_list" -> s
      [] s.ill_typed = "keys_not_dict" ->
            [s EXCEPT !.post_timestamps = Append(s.post_timestamps, now)]
      [] OTHER ->
            [post_timestamps  |-> Append(s.post_timestamps, now),
             last_post_by_key |->
                [k \in DOMAIN s.last_post_by_key \cup {key} |->
                    IF k = key THEN now ELSE s.last_post_by_key[k]],
             last_post_at     |-> now,
             ill_typed        |-> s.ill_typed]

----------------------------------------------------------------------------
(* The node process, src/lightning_bluesky.py.                             *)

(* Python's None in STORM_START, STORM_END and LAST_SUMMARY_POSTED.        *)
None == -1

STORM_MIN_STRIKES == 3

STORM_WINDOW == 600

STORM_GAP_TO_END == 1200

SUMMARY_DELAY == 3600

(* deque(maxlen=2000)                                                      *)
HISTORY_MAXLEN == 2000

(* timedelta(hours=1) of can_post, in seconds.                             *)
OneHour == 3600

(* The process-wide limiter of lines 70-73.                                *)
RATE_LIMITER == [min_interval |-> 300, max_per_hour |-> 20]

(* Constructor arguments of BlueskyRateLimiter the throttle is run under:  *)
(* the process-wide ones, no spacing with a small cap, a spacing longer    *)
(* than the hour the list is trimmed to.                                   *)
LimiterConfigs ==
    { RATE_LIMITER,
      [min_interval |-> 0, max_per_hour |-> 2],
      [min_interval |-> 1800, max_per_hour |-> 2],
      [min_interval |-> 7200, max_per_hour |-> 20] }

(* The one reading the sensor returns: get_distance(), get_energy().       *)
Readings == { [distance_km |-> 10, energy |-> 5000] }

(* A truthy Python value: neither None nor 0.                              *)
Truthy(x) == x # None /\ x # 0

Did(op, now, allowed) == [op |-> op, now |-> now, allowed |-> allowed]

CanPostStrictTrim(l, pt, now) ==
    LET trimmed == SelectSeq(pt, LAMBDA t : t > now - OneHour)
    IN  IF trimmed # <<>> /\ now - trimmed[Len(trimmed)] < l.min_interval
          THEN [allowed |-> FALSE, post_times |-> trimmed]
        ELSE IF Len(trimmed) >= l.max_per_hour
          THEN [allowed |-> FALSE, post_times |-> trimmed]
        ELSE [allowed |-> TRUE, post_times |-> Append(trimmed, now)]

(* can_post, lines 38-66: what it returns and the post_times it leaves.    *)
CanPost(l, pt, now) ==
    LET trimmed == SelectSeq(pt, LAMBDA t : t >= now - OneHour)
    IN  IF trimmed # <<>> /\ now - trimmed[Len(trimmed)] < l.min_interval
          THEN [allowed |-> FALSE, post_times |-> trimmed]
        ELSE IF Len(trimmed) >= l.max_per_hour
          THEN [allowed |-> FALSE, post_times |-> trimmed]
        ELSE [allowed |-> TRUE, post_times |-> Append(trimmed, now)]

DequeAppendUnbounded(h, e) == Append(h, e)

(* STRIKE_HISTORY.append(e) on the deque(maxlen=2000): at full length the  *)
(* leftmost entry is dropped.                                              *)
DequeAppend(h, e) ==
    IF Len(h) >= HISTORY_MAXLEN THEN Append(Tail(h), e) ELSE Append(h, e)

(* recent_times, line 525: the timestamps t of the history with            *)
(* now - t <= STORM_WINDOW, in history order.                              *)
RecentTimes(h, now) ==
    LET times == [i \in DOMAIN h |-> h[i][1]]
    IN  SelectSeq(times, LAMBDA t : now - t <= STORM_WINDOW)

StormStartsAtNow(recent, now) == now

(* STORM_START = recent_times[0], line 529.                                *)
StormStartsAt(recent, now) == recent[1]

StormEndsAfterWindow(active, end, now) ==
    active /\ Truthy(end) /\ now - end >= STORM_WINDOW

(* The storm-end condition of line 434.                                    *)
StormEnds(active, end, now) ==
    active /\ Truthy(end) /\ now - end >= STORM_GAP_TO_END

SummaryDueWhileActive(active, start, end, posted, now) ==
    /\ active
    /\ Truthy(start)
    /\ Truthy(end)
    /\ posted = None
    /\ now - end >= SUMMARY_DELAY

(* The summary condition of lines 449-453, on the values the first half    *)
(* of maybe_handle_storm_summary left.                                     *)
SummaryDue(active, start, end, posted, now) ==
    /\ ~active
    /\ Truthy(start)
    /\ Truthy(end)
    /\ posted = None
    /\ now - end >= SUMMARY_DELAY

(* SUMMARY_BIN_SIZE = 5 * 60, line 283.                                    *)
SUMMARY_BIN_SIZE == 300

(* _get_strikes_during, lines 304-305: the timestamps t of the history     *)
(* with storm_start <= t <= storm_end, in history order.                   *)
GetStrikesDuring(h, storm_start, storm_end) ==
    LET times == [i \in DOMAIN h |-> h[i][1]]
    IN  SelectSeq(times, LAMBDA t : storm_start <= t /\ t <= storm_end)

(* math.ceil(a / b) for a >= 0 and b > 0.                                  *)
CeilDiv(a, b) == (a + b - 1) \div b

(* num_bins, lines 358-359.                                                *)
NumBins(storm_start, storm_end) ==
    LET duration == IF storm_end - storm_start >= SUMMARY_BIN_SIZE
                      THEN storm_end - storm_start
                    ELSE SUMMARY_BIN_SIZE
        n        == CeilDiv(duration, SUMMARY_BIN_SIZE)
    IN  IF n >= 1 THEN n ELSE 1

BinIndexNoFold(t, storm_start, num_bins) ==
    (t - storm_start) \div SUMMARY_BIN_SIZE

(* idx, lines 363-365: the bin of a strike at t, numbered from 0.          *)
BinIndex(t, storm_start, num_bins) ==
    LET idx == (t - storm_start) \div SUMMARY_BIN_SIZE
    IN  IF idx >= num_bins THEN num_bins - 1 ELSE idx

(* build_storm_summary, lines 349-385: the figures the text is made of,    *)
(* and the bins the peak is taken from.                                    *)
BuildStormSummary(h, storm_start, storm_end) ==
    LET data     == GetStrikesDuring(h, storm_start, storm_end)
        num_bins == NumBins(storm_start, storm_end)
        bins     == [b \in 1..num_bins |->
                       Cardinality({ i \in DOMAIN data :
                           BinIndex(data[i], storm_start, num_bins) = b - 1 })]
    IN  IF data = <<>>
          THEN [no_strikes |-> TRUE, total |-> 0, bins |-> <<>>, peak |-> 0]
        ELSE [no_strikes |-> FALSE,
              total      |-> Len(data),
              bins       |-> bins,
              peak       |-> CHOOSE m \in SeqValues(bins) :
                                \A b \in DOMAIN bins : bins[b] <= m]

(* generate_and_post_storm_summary, lines 388-422: the summary it builds   *)
(* for the interval it was called with, at the time of the call.           *)
GenerateStormSummary(h, storm_start, storm_end, now) ==
    [at      |-> now,
     start   |-> storm_start,
     end     |-> storm_end,
     summary |-> BuildStormSummary(h, storm_start, storm_end)]

----------------------------------------------------------------------------
(* The state machine: one controller object, its state file, its callers.  *)

NoDecision == Decision(FALSE, "none", 0)

Call(op, key, now, decision) ==
    [op |-> op, key |-> key, now |-> now, decision |-> decision]

(* No save is in progress and no temporary file is left.                   *)
SaveIdle == tmp = MissingFile /\ saving = "idle"

(* No thread is in flight: each call runs from its first line to its last  *)
(* in one step.                                                            *)
NoThreads == <<>>

(* The module globals at import time, lines 36 and 271-276.                *)
NodeGlobals ==
    /\ wall = 0
    /\ post_times = <<>>
    /\ admitted = <<>>
    /\ STRIKE_HISTORY = <<>>
    /\ STORM_ACTIVE = FALSE
    /\ STORM_START = None
    /\ STORM_END = None
    /\ LAST_SUMMARY_POSTED = None
    /\ workers = [strike |-> 0, summary |-> 0]
    /\ sent = <<>>
    /\ summaries = <<>>
    /\ did = Did("start", 0, FALSE)

(* The node process at import time, with the limiter of lines 70-73.       *)
NodeStart == limiter = RATE_LIMITER /\ NodeGlobals

(* __init__ on a fresh state path: no file, the clock at its first value.  *)
Init ==
    /\ cfg \in Configs
    /\ clock = 0
    /\ started_at = 0
    /\ file = MissingFile
    /\ state = LoadState(MissingFile)
    /\ last = Call("init", "", 0, NoDecision)
    /\ lastRec = [k \in Keys |-> NoTimestamp]
    /\ only_records = TRUE
    /\ from_records = FALSE
    /\ SaveIdle
    /\ NodeStart
    /\ threads = NoThreads

(* time_fn returns a later value.                                          *)
AdvanceClock ==
    /\ \E t \in Times : t > clock /\ clock' = t
    /\ UNCHANGED <<cfg, started_at, state, file, last, lastRec, only_records,
                   from_records>>
    /\ UNCHANGED <<save_vars, node_vars, threads>>

(* should_post(event), lines 59-110.                                       *)
ShouldPost(ev) ==
    LET now == NowOf(ev, clock)
        key == DedupeKey(ev)
    IN  /\ state' = ShouldPostState(state, cfg, started_at, key, now)
        /\ last' = Call("should_post", key, now,
                        ShouldPostDecision(state, cfg, started_at, key, now))
        /\ only_records' = FALSE
        /\ UNCHANGED <<cfg, clock, started_at, file, lastRec, from_records>>
        /\ UNCHANGED <<save_vars, node_vars, threads>>

(* record_post(event), lines 112-127, _save_state included.                *)
RecordPost(ev) ==
    LET now == NowOf(ev, clock)
        key == DedupeKey(ev)
    IN  /\ Len(state.post_timestamps) < MaxPosts
        /\ state' = RecordState(state, key, now)
        /\ file' = SavePayload(state')
        /\ last' = Call("record_post", key, now, NoDecision)
        /\ lastRec' = [lastRec EXCEPT ![key] = now]
        /\ UNCHANGED <<cfg, clock, started_at, only_records, from_records>>
        /\ UNCHANGED <<save_vars, node_vars, threads>>

(* The caller of the docstring at line 114: record_post only right after   *)
(* should_post allowed the same event at the same time.                    *)
RecordAfterAllow(ev) ==
    /\ last.op = "should_post"
    /\ last.key = DedupeKey(ev)
    /\ last.now = NowOf(ev, clock)
    /\ last.decision.allow
    /\ RecordPost(ev)

ResetStateKeepsKeys ==
    /\ state' = [EmptyState EXCEPT !.last_post_by_key = state.last_post_by_key]
    /\ file' = SavePayload(state')
    /\ last' = Call("reset_state", "", clock, NoDecision)
    /\ lastRec' = [k \in Keys |-> NoTimestamp]
    /\ UNCHANGED <<cfg, clock, started_at, only_records, from_records>>
    /\ UNCHANGED <<save_vars, node_vars, threads>>

(* reset_state, lines 129-132, _save_state included.                       *)
ResetState ==
    /\ state' = EmptyState
    /\ file' = SavePayload(state')
    /\ last' = Call("reset_state", "", clock, NoDecision)
    /\ lastRec' = [k \in Keys |-> NoTimestamp]
    /\ UNCHANGED <<cfg, clock, started_at, only_records, from_records>>
    /\ UNCHANGED <<save_vars, node_vars, threads>>

(* The process ends and a new controller is constructed on the same state  *)
(* path with the same arguments: __init__, lines 43-53.                    *)
Restart ==
    /\ started_at' = clock
    /\ state' = LoadState(file)
    /\ last' = Call("restart", "", clock, NoDecision)
    /\ from_records' = only_records
    /\ only_records' = TRUE
    /\ UNCHANGED <<cfg, clock, file, lastRec>>
    /\ UNCHANGED <<save_vars, node_vars, threads>>

(* Any caller: events with or without a timestamp of their own, record_post *)
(* whenever called.                                                        *)
Next ==
    \/ AdvanceClock
    \/ \E ev \in Events : ShouldPost(ev)
    \/ \E ev \in Events : RecordPost(ev)
    \/ ResetState
    \/ Restart

Spec == Init /\ [][Next]_vars

(* The single caller on a non-decreasing clock: every event is stamped by  *)
(* time_fn and record_post follows an allowing should_post.                *)
NextClock ==
    \/ AdvanceClock
    \/ \E ev \in ClockEvents : ShouldPost(ev)
    \/ \E ev \in ClockEvents : RecordAfterAllow(ev)
    \/ ResetState
    \/ Restart

SpecClock == Init /\ [][NextClock]_vars

----------------------------------------------------------------------------
(* The controller constructed on a state file it did not write.            *)

StartFiles == {MissingFile, NotJson, NotAnObject} \cup IllTypedFiles

(* Two callers of one controller, each in a thread of its own: should_post *)
(* and, when it allowed, record_post for the same event.  The controller   *)
(* takes no lock; each call is taken as one step here, so the callers      *)
(* interleave between their calls only.                                    *)

(* A caller between two events.                                            *)
CallerIdle == [pc |-> "idle", key |-> ""]

(* The controller is constructed when the clock has its second value.      *)
InitCallers ==
    /\ cfg \in Configs
    /\ clock = 602
    /\ started_at = 602
    /\ file = MissingFile
    /\ state = LoadState(MissingFile)
    /\ last = Call("init", "", 602, NoDecision)
    /\ lastRec = [k \in Keys |-> NoTimestamp]
    /\ only_records = TRUE
    /\ from_records = FALSE
    /\ SaveIdle
    /\ NodeStart
    /\ threads = [a |-> CallerIdle, b |-> CallerIdle]

(* Caller c calls should_post(event), lines 59-110, and keeps an allowed   *)
(* event to publish and record.                                            *)
CallerShouldPost(c, ev) ==
    LET now == NowOf(ev, clock)
        key == DedupeKey(ev)
        d   == ShouldPostDecision(state, cfg, started_at, key, now)
    IN  /\ threads[c].pc = "idle"
        /\ state' = ShouldPostState(state, cfg, started_at, key, now)
        /\ last' = Call("should_post", key, now, d)
        /\ only_records' = FALSE
        /\ threads' = [threads EXCEPT ![c] =
              IF d.allow THEN [pc |-> "allowed", key |-> key] ELSE CallerIdle]
        /\ UNCHANGED <<cfg, clock, started_at, file, lastRec, from_records>>
        /\ UNCHANGED <<save_vars, node_vars>>

(* Caller c calls record_post(event), lines 112-127, _save_state included, *)
(* for the event should_post allowed it.                                   *)
CallerRecordPost(c) ==
    LET now == clock
        key == threads[c].key
    IN  /\ threads[c].pc = "allowed"
        /\ Len(state.post_timestamps) < MaxPosts
        /\ state' = RecordState(state, key, now)
        /\ file' = SavePayload(state')
        /\ last' = Call("record_post", key, now, NoDecision)
        /\ lastRec' = [lastRec EXCEPT ![key] = now]
        /\ threads' = [threads EXCEPT ![c] = CallerIdle]
        /\ UNCHANGED <<cfg, clock, started_at, only_records, from_records>>
        /\ UNCHANGED <<save_vars, node_vars>>

NextCallers ==
    \/ AdvanceClock
    \/ \E c \in {"a", "b"}, ev \in ClockEvents : CallerShouldPost(c, ev)
    \/ \E c \in {"a", "b"} : CallerRecordPost(c)

SpecCallers == InitCallers /\ [][NextCallers]_vars

(* __init__ on a state path that is absent or holds a malformed file.      *)
InitFiles ==
    /\ cfg \in Configs
    /\ clock = 0
    /\ started_at = 0
    /\ file \in StartFiles
    /\ state = LoadState(file)
    /\ last = Call("init", "", 0, NoDecision)
    /\ lastRec = [k \in Keys |-> NoTimestamp]
    /\ only_records = TRUE
    /\ from_records = FALSE
    /\ SaveIdle
    /\ NodeStart
    /\ threads = NoThreads

(* should_post(event) on whatever _load_state returned.                    *)
ShouldPostLoaded(ev) ==
    LET now == NowOf(ev, clock)
        key == DedupeKey(ev)
    IN  IF ShouldPostRaises(state, cfg, started_at, now)
          THEN /\ state' = ShouldPostRaisedState(state, now)
               /\ last' = Call("should_post", key, now, Raises)
               /\ only_records' = FALSE
               /\ UNCHANGED <<cfg, clock, started_at, file, lastRec, from_records>>
               /\ UNCHANGED <<save_vars, node_vars, threads>>
        ELSE ShouldPost(ev)

(* record_post(event) on whatever _load_state returned.                    *)
RecordPostLoaded(ev) ==
    LET now == NowOf(ev, clock)
        key == DedupeKey(ev)
    IN  IF RecordPostRaises(state, key)
          THEN /\ Len(state.post_timestamps) < MaxPosts
               /\ state' = RecordPostRaisedState(state, key, now)
               /\ last' = Call("record_post", key, now, Raises)
               /\ UNCHANGED <<cfg, clock, started_at, file, lastRec, only_records,
                              from_records>>
               /\ UNCHANGED <<save_vars, node_vars, threads>>
        ELSE IF IllTyped(state)
          THEN /\ Len(state.post_timestamps) < MaxPosts
               /\ state' = RecordState(state, key, now)
               /\ file' = SavePayload(state')
               /\ last' = Call("record_post", key, now, NoDecision)
               /\ lastRec' = [lastRec EXCEPT ![key] = now]
               /\ UNCHANGED <<cfg, clock, started_at, only_records, from_records>>
               /\ UNCHANGED <<save_vars, node_vars, threads>>
        ELSE RecordPost(ev)

NextFiles ==
    \/ AdvanceClock
    \/ \E ev \in ClockEvents : ShouldPostLoaded(ev)
    \/ \E ev \in ClockEvents : RecordPostLoaded(ev)

SpecFiles == InitFiles /\ [][NextFiles]_vars

----------------------------------------------------------------------------
(* The controller with _save_state in its steps, and the process ending at *)
(* any of them.                                                            *)

Disk == [live |-> file, tmp |-> tmp]

(* record_post, lines 117-126, and _save_state up to the opening of the    *)
(* temporary file at line 195.                                             *)
RecordBegin(ev) ==
    LET now == NowOf(ev, clock)
        key == DedupeKey(ev)
        d   == SaveOpen(Disk)
    IN  /\ saving = "idle"
        /\ Len(state.post_timestamps) < MaxPosts
        /\ state' = RecordState(state, key, now)
        /\ file' = d.live
        /\ tmp' = d.tmp
        /\ saving' = "dump"
        /\ last' = Call("record_post", key, now, NoDecision)
        /\ lastRec' = [lastRec EXCEPT ![key] = now]
        /\ UNCHANGED <<cfg, clock, started_at, only_records, from_records>>
        /\ UNCHANGED <<node_vars, threads>>

(* json.dump has written a part of the text, line 196.                     *)
DumpPart ==
    /\ saving = "dump"
    /\ tmp = EmptyText
    /\ file' = SaveDumpPart(Disk).live
    /\ tmp' = SaveDumpPart(Disk).tmp
    /\ UNCHANGED <<gate_vars_but_file, saving, node_vars, threads>>

(* json.dump has written all of it and the with block closed the file.     *)
DumpAll ==
    /\ saving = "dump"
    /\ file' = SaveDump(Disk, state).live
    /\ tmp' = SaveDump(Disk, state).tmp
    /\ saving' = "replace"
    /\ UNCHANGED <<gate_vars_but_file, node_vars, threads>>

(* os.replace(tmp_path, self.state_path), line 197; record_post returns.   *)
Replace ==
    /\ saving = "replace"
    /\ file' = SaveReplace(Disk).live
    /\ tmp' = SaveReplace(Disk).tmp
    /\ saving' = "idle"
    /\ UNCHANGED <<gate_vars_but_file, node_vars, threads>>

(* should_post between two saves.                                          *)
ShouldPostIdle(ev) == saving = "idle" /\ ShouldPost(ev)

(* The process dies, at any step of a save or between saves, and a new     *)
(* controller is constructed on the same path: the disk is as it was left. *)
Crash ==
    /\ started_at' = clock
    /\ state' = LoadState(file)
    /\ last' = Call("restart", "", clock, NoDecision)
    /\ from_records' = only_records
    /\ only_records' = TRUE
    /\ saving' = "idle"
    /\ UNCHANGED <<cfg, clock, file, lastRec, tmp, node_vars, threads>>

NextCrash ==
    \/ AdvanceClock
    \/ \E ev \in ClockEvents : ShouldPostIdle(ev)
    \/ \E ev \in ClockEvents : RecordBegin(ev)
    \/ DumpPart
    \/ DumpAll
    \/ Replace
    \/ Crash

SpecCrash == Init /\ [][NextCrash]_vars

----------------------------------------------------------------------------
(* The outbound throttle alone: can_post called one call at a time.        *)

ThrottleTimes == {0, 299, 300, 1800, 3600, 3601, 3900, 7200, 7201}

(* The node process never constructs a controller: the gate's variables    *)
(* stay as they are here.                                                  *)
GateUnused ==
    /\ cfg \in { c \in Configs : c.startup_grace_s = 0 }
    /\ clock = 0
    /\ started_at = 0
    /\ file = MissingFile
    /\ state = EmptyState
    /\ last = Call("init", "", 0, NoDecision)
    /\ lastRec = [k \in Keys |-> NoTimestamp]
    /\ only_records = TRUE
    /\ from_records = FALSE
    /\ SaveIdle

InitThrottle ==
    GateUnused /\ limiter \in LimiterConfigs /\ NodeGlobals /\ threads = NoThreads

(* datetime.utcnow() returns a later value.                                *)
AdvanceWall ==
    /\ \E t \in ThrottleTimes : t > wall /\ wall' = t
    /\ did' = Did("elapse", wall', FALSE)
    /\ UNCHANGED <<limiter, post_times, admitted, STRIKE_HISTORY, STORM_ACTIVE,
                   STORM_START, STORM_END, LAST_SUMMARY_POSTED, workers, sent,
                   summaries>>
    /\ UNCHANGED <<gate_vars, save_vars, threads>>

(* RATE_LIMITER.can_post(), lines 38-66.                                   *)
CanPostCall ==
    LET r == CanPost(limiter, post_times, wall)
    IN  /\ post_times' = r.post_times
        /\ admitted' = IF r.allowed THEN Append(admitted, wall) ELSE admitted
        /\ did' = Did("can_post", wall, r.allowed)
        /\ UNCHANGED <<wall, limiter, STRIKE_HISTORY, STORM_ACTIVE, STORM_START,
                       STORM_END, LAST_SUMMARY_POSTED, workers, sent, summaries>>
        /\ UNCHANGED <<gate_vars, save_vars, threads>>

NextThrottle == AdvanceWall \/ CanPostCall

SpecThrottle == InitThrottle /\ [][NextThrottle]_vars

----------------------------------------------------------------------------
(* The node process: interrupts, the periodic check, the publish threads.  *)

(* Bound of the model: the strikes handled.                                *)
MaxStrikes == 4

(* Values of the node's clock: strikes 100 s apart from 0, the edge of the *)
(* storm window behind a strike at 0 or 100 (600, 700), the quiet gap and  *)
(* the summary delay behind a last strike at 200 or 700 (1400, 1900, 3800, *)
(* 4300), each with a value just before it.                                *)
NodeTimes == {0, 100, 200, 201, 600, 700, 1300, 1400, 1900, 3700, 3800, 4300}

(* Seconds between the read of the clock at line 465 and the one of        *)
(* record_strike, line 300, in the same handler call.                      *)
Drift == {0, 1}

InitNode == GateUnused /\ NodeStart /\ threads = NoThreads

(* time.time() returns a later value.                                      *)
Elapse ==
    /\ \E t \in NodeTimes : t > wall /\ wall' = t
    /\ did' = Did("elapse", wall', FALSE)
    /\ UNCHANGED <<limiter, post_times, admitted, STRIKE_HISTORY, STORM_ACTIVE,
                   STORM_START, STORM_END, LAST_SUMMARY_POSTED, workers, sent,
                   summaries>>
    /\ UNCHANGED <<gate_vars, save_vars, threads>>

StrikeRestarts(dt, reading) ==
    LET now     == wall
        entry   == <<wall + dt, reading.distance_km, reading.energy>>
        history == DequeAppend(STRIKE_HISTORY, entry)
        recent  == RecentTimes(history, now)
        starts  == Len(recent) >= STORM_MIN_STRIKES
    IN  /\ workers' = [workers EXCEPT !.strike = @ + 1]
        /\ STRIKE_HISTORY' = history
        /\ STORM_ACTIVE' = (starts \/ STORM_ACTIVE)
        /\ STORM_START' = IF starts THEN StormStartsAt(recent, now) ELSE STORM_START
        /\ STORM_END' = IF starts \/ STORM_ACTIVE THEN now ELSE STORM_END
        /\ wall' = wall + dt
        /\ did' = Did("strike", now, FALSE)
        /\ UNCHANGED <<limiter, post_times, admitted, LAST_SUMMARY_POSTED, sent,
                       summaries>>
        /\ UNCHANGED <<gate_vars, save_vars, threads>>

(* handle_interrupt with reason 0x08, lines 460-543: send_tweet starts a   *)
(* publish thread, record_strike appends to the history at its own reading *)
(* of the clock, then the storm state machine runs on the handler's now.   *)
Strike(dt, reading) ==
    LET now     == wall
        entry   == <<wall + dt, reading.distance_km, reading.energy>>
        history == DequeAppend(STRIKE_HISTORY, entry)
        recent  == RecentTimes(history, now)
        starts  == ~STORM_ACTIVE /\ Len(recent) >= STORM_MIN_STRIKES
    IN  /\ workers' = [workers EXCEPT !.strike = @ + 1]
        /\ STRIKE_HISTORY' = history
        /\ STORM_ACTIVE' = (starts \/ STORM_ACTIVE)
        /\ STORM_START' = IF starts THEN StormStartsAt(recent, now) ELSE STORM_START
        /\ STORM_END' = IF starts \/ STORM_ACTIVE THEN now ELSE STORM_END
        /\ wall' = wall + dt
        /\ did' = Did("strike", now, FALSE)
        /\ UNCHANGED <<limiter, post_times, admitted, LAST_SUMMARY_POSTED, sent,
                       summaries>>
        /\ UNCHANGED <<gate_vars, save_vars, threads>>

(* A strike within the bounds of the model.                                *)
StrikeBounded ==
    /\ Len(STRIKE_HISTORY) < MaxStrikes
    /\ \E dt \in Drift, reading \in Readings :
          wall + dt \in NodeTimes /\ Strike(dt, reading)

(* handle_interrupt with another reason, lines 467-485 and 545-553: the    *)
(* sensor is adjusted and a line is logged.                                *)
OtherInterrupt ==
    /\ did' = Did("interrupt", wall, FALSE)
    /\ UNCHANGED <<wall, limiter, post_times, admitted, STRIKE_HISTORY,
                   STORM_ACTIVE, STORM_START, STORM_END, LAST_SUMMARY_POSTED,
                   workers, sent, summaries>>
    /\ UNCHANGED <<gate_vars, save_vars, threads>>

TickAtKeepsPosted(now) ==
    LET ends    == StormEnds(STORM_ACTIVE, STORM_END, now)
        active  == IF ends THEN FALSE ELSE STORM_ACTIVE
        posted  == LAST_SUMMARY_POSTED
        due     == SummaryDue(active, STORM_START, STORM_END, posted, now)
    IN  /\ STORM_ACTIVE' = active
        /\ LAST_SUMMARY_POSTED' = IF due THEN now ELSE posted
        /\ summaries' =
              IF due
                THEN Append(summaries,
                            GenerateStormSummary(STRIKE_HISTORY, STORM_START,
                                                 STORM_END, now))
              ELSE summaries
        /\ workers' = IF due THEN [workers EXCEPT !.summary = @ + 1] ELSE workers
        /\ did' = Did("tick", now, FALSE)
        /\ UNCHANGED <<limiter, post_times, admitted, STRIKE_HISTORY,
                       STORM_START, STORM_END, sent>>
        /\ UNCHANGED <<gate_vars, save_vars, threads>>

TickAtMarksLater(now) ==
    LET ends    == StormEnds(STORM_ACTIVE, STORM_END, now)
        active  == IF ends THEN FALSE ELSE STORM_ACTIVE
        posted  == IF ends THEN None ELSE LAST_SUMMARY_POSTED
        due     == SummaryDue(active, STORM_START, STORM_END, posted, now)
    IN  /\ STORM_ACTIVE' = active
        /\ LAST_SUMMARY_POSTED' = posted
        /\ summaries' =
              IF due
                THEN Append(summaries,
                            GenerateStormSummary(STRIKE_HISTORY, STORM_START,
                                                 STORM_END, now))
              ELSE summaries
        /\ workers' = IF due THEN [workers EXCEPT !.summary = @ + 1] ELSE workers
        /\ did' = Did("tick", now, FALSE)
        /\ UNCHANGED <<limiter, post_times, admitted, STRIKE_HISTORY,
                       STORM_START, STORM_END, sent>>
        /\ UNCHANGED <<gate_vars, save_vars, threads>>

(* maybe_handle_storm_summary, lines 425-456, with now the value its       *)
(* time.time() returns: the storm end, then the summary, whose publish     *)
(* thread generate_and_post_storm_summary starts.                          *)
TickAt(now) ==
    LET ends    == StormEnds(STORM_ACTIVE, STORM_END, now)
        active  == IF ends THEN FALSE ELSE STORM_ACTIVE
        posted  == IF ends THEN None ELSE LAST_SUMMARY_POSTED
        due     == SummaryDue(active, STORM_START, STORM_END, posted, now)
    IN  /\ STORM_ACTIVE' = active
        /\ LAST_SUMMARY_POSTED' = IF due THEN now ELSE posted
        /\ summaries' =
              IF due
                THEN Append(summaries,
                            GenerateStormSummary(STRIKE_HISTORY, STORM_START,
                                                 STORM_END, now))
              ELSE summaries
        /\ workers' = IF due THEN [workers EXCEPT !.summary = @ + 1] ELSE workers
        /\ did' = Did("tick", now, FALSE)
        /\ UNCHANGED <<limiter, post_times, admitted, STRIKE_HISTORY,
                       STORM_START, STORM_END, sent>>
        /\ UNCHANGED <<gate_vars, save_vars, threads>>

TickJoins ==
    /\ workers.strike = 0 /\ workers.summary = 0
    /\ TickAt(wall) /\ wall' = wall

(* maybe_handle_storm_summary called by the main loop, line 575.  The loop  *)
(* of lines 572-575 and the handler hold no reference to the threads that  *)
(* send_tweet (line 256) and generate_and_post_storm_summary (lines        *)
(* 405-409) start as daemons: nothing joins them.                          *)
Tick == TickAt(wall) /\ wall' = wall

(* post_bluesky in its thread, lines 190-247: the credentials are set      *)
(* (their absence ends the process at import, line 115), can_post is       *)
(* asked, and when it allows the client logs in and posts.  Each entry of  *)
(* sent names the checks that were made and allowed on the way to it.      *)
(* Line 180 of the file reads "def def post_bluesky(...)", which Python    *)
(* rejects when it compiles the file; the function is modelled as the      *)
(* single def its body and its callers (send_tweet, line 256, and          *)
(* generate_and_post_storm_summary, lines 405-412) make of it.             *)
PostBluesky(kind) ==
    LET r == CanPost(limiter, post_times, wall)
    IN  /\ workers[kind] > 0
        /\ workers' = [workers EXCEPT ![kind] = @ - 1]
        /\ post_times' = r.post_times
        /\ admitted' = IF r.allowed THEN Append(admitted, wall) ELSE admitted
        /\ sent' =
              IF r.allowed
                THEN Append(sent, [kind |-> kind, at |-> wall,
                                   allowed_by |-> {"can_post"}])
              ELSE sent
        /\ did' = Did("post_bluesky", wall, r.allowed)
        /\ UNCHANGED <<wall, limiter, STRIKE_HISTORY, STORM_ACTIVE, STORM_START,
                       STORM_END, LAST_SUMMARY_POSTED, summaries>>
        /\ UNCHANGED <<gate_vars, save_vars, threads>>

PostBlueskyFailsRetries(kind) ==
    LET r == CanPost(limiter, post_times, wall)
    IN  /\ workers[kind] > 0
        /\ r.allowed
        /\ workers' = workers
        /\ post_times' = r.post_times
        /\ admitted' = Append(admitted, wall)
        /\ did' = Did("post_bluesky_failed", wall, TRUE)
        /\ UNCHANGED <<wall, limiter, STRIKE_HISTORY, STORM_ACTIVE, STORM_START,
                       STORM_END, LAST_SUMMARY_POSTED, summaries, sent>>
        /\ UNCHANGED <<gate_vars, save_vars, threads>>

PostBlueskyFailsUnrecorded(kind) ==
    LET r == CanPost(limiter, post_times, wall)
    IN  /\ workers[kind] > 0
        /\ r.allowed
        /\ workers' = [workers EXCEPT ![kind] = @ - 1]
        /\ post_times' = SubSeq(r.post_times, 1, Len(r.post_times) - 1)
        /\ admitted' = Append(admitted, wall)
        /\ did' = Did("post_bluesky_failed", wall, TRUE)
        /\ UNCHANGED <<wall, limiter, STRIKE_HISTORY, STORM_ACTIVE, STORM_START,
                       STORM_END, LAST_SUMMARY_POSTED, summaries, sent>>
        /\ UNCHANGED <<gate_vars, save_vars, threads>>

(* post_bluesky when the publish fails, lines 201-247: can_post allowed    *)
(* and appended its timestamp (line 65), then the login, the upload or the *)
(* post raises, or the chart file is missing (lines 218-224).  The handler *)
(* of lines 245-247 logs through handle_error, which returns when fatal is *)
(* False (error_handler.py, lines 41-67), and the thread ends.             *)
PostBlueskyFails(kind) ==
    LET r == CanPost(limiter, post_times, wall)
    IN  /\ workers[kind] > 0
        /\ r.allowed
        /\ workers' = [workers EXCEPT ![kind] = @ - 1]
        /\ post_times' = r.post_times
        /\ admitted' = Append(admitted, wall)
        /\ did' = Did("post_bluesky_failed", wall, TRUE)
        /\ UNCHANGED <<wall, limiter, STRIKE_HISTORY, STORM_ACTIVE, STORM_START,
                       STORM_END, LAST_SUMMARY_POSTED, summaries, sent>>
        /\ UNCHANGED <<gate_vars, save_vars, threads>>

NextNode ==
    \/ Elapse
    \/ StrikeBounded
    \/ OtherInterrupt
    \/ Tick
    \/ \E kind \in {"strike", "summary"} : PostBluesky(kind)

SpecNode == InitNode /\ [][NextNode]_vars

(* The storm session alone: the publish threads that are started are left  *)
(* waiting; they share no variable with the session (post_bluesky reads    *)
(* and writes RATE_LIMITER only).                                          *)
NextStorm ==
    \/ Elapse
    \/ StrikeBounded
    \/ OtherInterrupt
    \/ Tick

SpecStorm == InitNode /\ [][NextStorm]_vars

(* The node process with publishes that can fail, over one storm.          *)
(* Bound of the model: the strikes handled.                                *)
MaxPublishStrikes == 3

(* Values of the clock: three strikes 100 s apart, the end of their        *)
(* session, the time its summary is due and a later time.                  *)
PublishTimes == {0, 100, 200, 1400, 3800, 4300}

ElapsePublish == Elapse /\ wall' \in PublishTimes

StrikePublish ==
    /\ Len(STRIKE_HISTORY) < MaxPublishStrikes
    /\ StrikeBounded
    /\ wall' \in PublishTimes

NextPublish ==
    \/ ElapsePublish
    \/ StrikePublish
    \/ Tick
    \/ \E kind \in {"strike", "summary"} : PostBluesky(kind)
    \/ \E kind \in {"strike", "summary"} : PostBlueskyFails(kind)

SpecPublish == InitNode /\ [][NextPublish]_vars

(* The same process under each of the limiters the throttle is run under.  *)
SpecOutbound == InitThrottle /\ [][NextPublish]_vars

----------------------------------------------------------------------------
(* The strike history filled to its capacity: one strike a second.         *)

(* Bound of the model: the number of strikes of the run.                   *)
HistoryRun == 2003

StrikeEverySecond ==
    /\ wall < HistoryRun
    /\ \E reading \in Readings : Strike(1, reading)

NextHistory == StrikeEverySecond \/ OtherInterrupt \/ Tick

SpecHistory == InitNode /\ [][NextHistory]_vars

----------------------------------------------------------------------------
(* Two storm sessions: a burst of strikes, the quiet gap, and a second     *)
(* burst before or after the summary of the first is due.                  *)

(* Bound of the model: the strikes handled in a run of two bursts.         *)
MaxBurstStrikes == 6

(* Values of the node's clock, all past 0 as the Unix time is: a burst at  *)
(* 100 to 300, the quiet gap behind it (1500), a second burst at 1600 to   *)
(* 1800, the summary delay behind the first (3900), the quiet gap and the  *)
(* summary delay behind the second (3000, 5400).                           *)
SessionTimes == {100, 300, 1500, 1600, 1800, 3000, 3900, 5400}

(* One turn of the main loop, lines 573-575: time.sleep returns at a later *)
(* value of the clock and maybe_handle_storm_summary runs at it; strikes   *)
(* arrive between two turns.                                               *)
SleepAndTick ==
    \E t \in SessionTimes : t > wall /\ wall' = t /\ TickAt(t)

(* A strike within the bounds of the model.                                *)
StrikeSessions ==
    /\ Len(STRIKE_HISTORY) < MaxBurstStrikes
    /\ wall \in SessionTimes
    /\ \E dt \in Drift, reading \in Readings :
          wall + dt \in SessionTimes /\ Strike(dt, reading)

NextSessions ==
    \/ SleepAndTick
    \/ StrikeSessions

SpecSessions == InitNode /\ [][NextSessions]_vars

(* The main loop keeps running: it is not stopped and its sleep returns.   *)
SpecSessionsLive ==
    InitNode /\ [][NextSessions]_vars /\ WF_vars(SleepAndTick)

----------------------------------------------------------------------------
(* The interrupt callback and the main loop as two threads.  RPi.GPIO runs *)
(* handle_interrupt in its own thread (add_event_detect, line 559) while   *)
(* the main thread runs maybe_handle_storm_summary (line 575); no lock is  *)
(* taken by either, so the interpreter may switch between them at any      *)
(* statement.  Each action below is one group of statements of one thread; *)
(* the assignments of lines 528-530 are taken as one step.                 *)

(* Bound of the model: the strikes handled.                                *)
MaxRaceStrikes == 4

(* Values of the node's clock: a burst at 100 to 300, the quiet gap behind *)
(* it (1500), the summary delay behind 300 and behind 1500 (3900, 5100).   *)
RaceTimes == {100, 200, 300, 1500, 3900, 5100}

IdleThread == [pc |-> "idle", now |-> 0, recent |-> <<>>]

InitRace ==
    /\ GateUnused
    /\ NodeStart
    /\ threads = [tick |-> IdleThread, irq |-> IdleThread]

(* The session, the history and the started threads as a step leaves them. *)
RaceFrame(active, start, end, posted, history, sums, wrk) ==
    /\ STORM_ACTIVE' = active
    /\ STORM_START' = start
    /\ STORM_END' = end
    /\ LAST_SUMMARY_POSTED' = posted
    /\ STRIKE_HISTORY' = history
    /\ summaries' = sums
    /\ workers' = wrk
    /\ UNCHANGED <<wall, limiter, post_times, admitted, sent>>
    /\ UNCHANGED <<gate_vars, save_vars>>

RaceKeep ==
    RaceFrame(STORM_ACTIVE, STORM_START, STORM_END, LAST_SUMMARY_POSTED,
              STRIKE_HISTORY, summaries, workers)

(* time.time() returns a later value; no call is in flight meanwhile.      *)
ElapseRace ==
    /\ threads.tick.pc = "idle"
    /\ threads.irq.pc = "idle"
    /\ \E t \in RaceTimes : t > wall /\ wall' = t
    /\ did' = Did("elapse", wall', FALSE)
    /\ UNCHANGED <<limiter, post_times, admitted, STRIKE_HISTORY, STORM_ACTIVE,
                   STORM_START, STORM_END, LAST_SUMMARY_POSTED, workers, sent,
                   summaries>>
    /\ UNCHANGED <<gate_vars, save_vars, threads>>

(* maybe_handle_storm_summary, lines 431-434: now is read and the storm-   *)
(* end condition evaluated.                                                *)
TickBegin ==
    /\ threads.tick.pc = "idle"
    /\ threads' = [threads EXCEPT !.tick =
          [pc     |-> IF StormEnds(STORM_ACTIVE, STORM_END, wall)
                        THEN "end" ELSE "check",
           now    |-> wall,
           recent |-> <<>>]]
    /\ did' = Did("tick", wall, FALSE)
    /\ RaceKeep

(* Line 435: STORM_ACTIVE = False.                                         *)
TickEndSession ==
    /\ threads.tick.pc = "end"
    /\ threads' = [threads EXCEPT !.tick.pc = "clear"]
    /\ did' = Did("tick", threads.tick.now, FALSE)
    /\ RaceFrame(FALSE, STORM_START, STORM_END, LAST_SUMMARY_POSTED,
                 STRIKE_HISTORY, summaries, workers)

(* Lines 436-446: the end is logged and LAST_SUMMARY_POSTED = None.        *)
TickClear ==
    /\ threads.tick.pc = "clear"
    /\ threads' = [threads EXCEPT !.tick.pc = "check"]
    /\ did' = Did("tick", threads.tick.now, FALSE)
    /\ RaceFrame(STORM_ACTIVE, STORM_START, STORM_END, None,
                 STRIKE_HISTORY, summaries, workers)

(* Lines 449-453: the summary condition is evaluated.                      *)
TickCheck ==
    /\ threads.tick.pc = "check"
    /\ threads' = [threads EXCEPT !.tick.pc =
          IF SummaryDue(STORM_ACTIVE, STORM_START, STORM_END,
                        LAST_SUMMARY_POSTED, threads.tick.now)
            THEN "emit" ELSE "idle"]
    /\ did' = Did("tick", threads.tick.now, FALSE)
    /\ RaceKeep

(* Line 455: generate_and_post_storm_summary(STORM_START, STORM_END).      *)
TickEmit ==
    /\ threads.tick.pc = "emit"
    /\ threads' = [threads EXCEPT !.tick.pc = "mark"]
    /\ did' = Did("tick", threads.tick.now, FALSE)
    /\ RaceFrame(STORM_ACTIVE, STORM_START, STORM_END, LAST_SUMMARY_POSTED,
                 STRIKE_HISTORY,
                 Append(summaries,
                        GenerateStormSummary(STRIKE_HISTORY, STORM_START,
                                             STORM_END, threads.tick.now)),
                 [workers EXCEPT !.summary = @ + 1])

(* Line 456: LAST_SUMMARY_POSTED = now.                                    *)
TickMark ==
    /\ threads.tick.pc = "mark"
    /\ threads' = [threads EXCEPT !.tick.pc = "idle"]
    /\ did' = Did("tick", threads.tick.now, FALSE)
    /\ RaceFrame(STORM_ACTIVE, STORM_START, STORM_END, threads.tick.now,
                 STRIKE_HISTORY, summaries, workers)

(* handle_interrupt with reason 0x08, lines 460-508: now is read and       *)
(* send_tweet starts the publish thread of the strike message.             *)
IrqBegin ==
    /\ threads.irq.pc = "idle"
    /\ Len(STRIKE_HISTORY) < MaxRaceStrikes
    /\ wall \in RaceTimes
    /\ threads' = [threads EXCEPT !.irq =
          [pc |-> "record", now |-> wall, recent |-> <<>>]]
    /\ did' = Did("strike", wall, FALSE)
    /\ RaceFrame(STORM_ACTIVE, STORM_START, STORM_END, LAST_SUMMARY_POSTED,
                 STRIKE_HISTORY, summaries, [workers EXCEPT !.strike = @ + 1])

(* Line 511: record_strike appends to the history.                         *)
IrqRecord ==
    /\ threads.irq.pc = "record"
    /\ threads' = [threads EXCEPT !.irq.pc = "window"]
    /\ did' = Did("strike", threads.irq.now, FALSE)
    /\ \E reading \in Readings :
          RaceFrame(STORM_ACTIVE, STORM_START, STORM_END, LAST_SUMMARY_POSTED,
                    DequeAppend(STRIKE_HISTORY,
                                <<wall, reading.distance_km, reading.energy>>),
                    summaries, workers)

(* Lines 525-527: recent_times is built and the onset condition evaluated. *)
IrqWindow ==
    LET recent == RecentTimes(STRIKE_HISTORY, threads.irq.now)
    IN  /\ threads.irq.pc = "window"
        /\ threads' = [threads EXCEPT !.irq =
              [pc     |-> IF ~STORM_ACTIVE /\ Len(recent) >= STORM_MIN_STRIKES
                            THEN "start" ELSE "elif",
               now    |-> threads.irq.now,
               recent |-> recent]]
        /\ did' = Did("strike", threads.irq.now, FALSE)
        /\ RaceKeep

(* Lines 528-540: the session starts.                                      *)
IrqStart ==
    /\ threads.irq.pc = "start"
    /\ threads' = [threads EXCEPT !.irq = IdleThread]
    /\ did' = Did("strike", threads.irq.now, FALSE)
    /\ RaceFrame(TRUE, StormStartsAt(threads.irq.recent, threads.irq.now),
                 threads.irq.now, LAST_SUMMARY_POSTED, STRIKE_HISTORY,
                 summaries, workers)

(* Line 542: elif STORM_ACTIVE.                                            *)
IrqElif ==
    /\ threads.irq.pc = "elif"
    /\ threads' = [threads EXCEPT !.irq =
          IF STORM_ACTIVE THEN [@ EXCEPT !.pc = "touch"] ELSE IdleThread]
    /\ did' = Did("strike", threads.irq.now, FALSE)
    /\ RaceKeep

(* Line 543: STORM_END = now.                                              *)
IrqTouch ==
    /\ threads.irq.pc = "touch"
    /\ threads' = [threads EXCEPT !.irq = IdleThread]
    /\ did' = Did("strike", threads.irq.now, FALSE)
    /\ RaceFrame(STORM_ACTIVE, STORM_START, threads.irq.now,
                 LAST_SUMMARY_POSTED, STRIKE_HISTORY, summaries, workers)

NextRace ==
    \/ ElapseRace
    \/ TickBegin
    \/ TickEndSession
    \/ TickClear
    \/ TickCheck
    \/ TickEmit
    \/ TickMark
    \/ IrqBegin
    \/ IrqRecord
    \/ IrqWindow
    \/ IrqStart
    \/ IrqElif
    \/ IrqTouch

SpecRace == InitRace /\ [][NextRace]_vars

----------------------------------------------------------------------------
(* Two publish threads inside RATE_LIMITER.can_post.  send_tweet starts    *)
(* one thread per message (line 256) and post_bluesky calls can_post in    *)
(* it (line 202); can_post takes no lock, so the interpreter may switch    *)
(* between the threads at any statement.                                   *)

WorkerTimes == {0, 100, 300, 3700}

(* The limiter of the module, and one without spacing and a cap of two.    *)
WorkerLimiters == { RATE_LIMITER, [min_interval |-> 0, max_per_hour |-> 2] }

InitWorkers ==
    /\ GateUnused
    /\ limiter \in WorkerLimiters
    /\ NodeGlobals
    /\ threads = [w1 |-> IdleThread, w2 |-> IdleThread]

(* The limiter's list and the allowed timestamps as a step leaves them.    *)
WorkerFrame(pt, adm) ==
    /\ post_times' = pt
    /\ admitted' = adm
    /\ UNCHANGED <<wall, limiter, STRIKE_HISTORY, STORM_ACTIVE, STORM_START,
                   STORM_END, LAST_SUMMARY_POSTED, workers, sent, summaries>>
    /\ UNCHANGED <<gate_vars, save_vars>>

(* datetime.utcnow() returns a later value.                                *)
ElapseWorkers ==
    /\ \E t \in WorkerTimes : t > wall /\ wall' = t
    /\ did' = Did("elapse", wall', FALSE)
    /\ UNCHANGED <<limiter, post_times, admitted, STRIKE_HISTORY, STORM_ACTIVE,
                   STORM_START, STORM_END, LAST_SUMMARY_POSTED, workers, sent,
                   summaries>>
    /\ UNCHANGED <<gate_vars, save_vars, threads>>

(* can_post, lines 39-43: now is read and the list trimmed to the hour.    *)
CanPostTrim(w) ==
    /\ threads[w].pc = "idle"
    /\ threads' = [threads EXCEPT ![w] =
          [pc |-> "spacing", now |-> wall, recent |-> <<>>]]
    /\ did' = Did("can_post", wall, FALSE)
    /\ WorkerFrame(SelectSeq(post_times, LAMBDA t : t >= wall - OneHour),
                   admitted)

(* Lines 46-53: the spacing check against the last entry of the list.      *)
CanPostSpacing(w) ==
    LET denied == /\ post_times # <<>>
                  /\ threads[w].now - post_times[Len(post_times)]
                        < limiter.min_interval
    IN  /\ threads[w].pc = "spacing"
        /\ threads' = [threads EXCEPT ![w] =
              IF denied THEN IdleThread ELSE [@ EXCEPT !.pc = "cap"]]
        /\ did' = Did("can_post", threads[w].now, FALSE)
        /\ WorkerFrame(post_times, admitted)

(* Lines 56-62: the hourly cap against the length of the list.             *)
CanPostCap(w) ==
    LET denied == Len(post_times) >= limiter.max_per_hour
    IN  /\ threads[w].pc = "cap"
        /\ threads' = [threads EXCEPT ![w] =
              IF denied THEN IdleThread ELSE [@ EXCEPT !.pc = "append"]]
        /\ did' = Did("can_post", threads[w].now, FALSE)
        /\ WorkerFrame(post_times, admitted)

(* Lines 65-66: now is appended and the call returns True.                 *)
CanPostAppend(w) ==
    /\ threads[w].pc = "append"
    /\ threads' = [threads EXCEPT ![w] = IdleThread]
    /\ did' = Did("can_post", threads[w].now, TRUE)
    /\ WorkerFrame(Append(post_times, threads[w].now),
                   Append(admitted, threads[w].now))

NextWorkers ==
    \/ ElapseWorkers
    \/ \E w \in {"w1", "w2"} :
          \/ CanPostTrim(w)
          \/ CanPostSpacing(w)
          \/ CanPostCap(w)
          \/ CanPostAppend(w)

SpecWorkers == InitWorkers /\ [][NextWorkers]_vars

----------------------------------------------------------------------------
(* The storm summary alone: generate_and_post_storm_summary called on a    *)
(* history and an interval.                                                *)

(* Strike times of the histories: two minutes apart over twelve minutes,   *)
(* the edges of the first five-minute bin (299, 300), one after the end.   *)
SummaryTimes == {0, 120, 240, 299, 300, 360, 480, 600, 720, 900}

SummaryStarts == {0, 120, 300}

SummaryEnds == {300, 420, 600, 720, 900}

MaxOf(S) == CHOOSE x \in S : \A y \in S : y <= x

(* The history record_strike leaves after one strike at each time of T.    *)
RECURSIVE HistoryOf(_)
HistoryOf(T) ==
    IF T = {} THEN <<>>
    ELSE LET m == MaxOf(T)
             reading == CHOOSE r \in Readings : TRUE
         IN  DequeAppend(HistoryOf(T \ {m}),
                         <<m, reading.distance_km, reading.energy>>)

InitSummary ==
    /\ GateUnused
    /\ limiter = RATE_LIMITER
    /\ wall = MaxOf(SummaryEnds) + SUMMARY_DELAY
    /\ post_times = <<>>
    /\ admitted = <<>>
    /\ STRIKE_HISTORY \in { HistoryOf(T) : T \in SUBSET SummaryTimes }
    /\ STORM_ACTIVE = FALSE
    /\ STORM_START \in SummaryStarts
    /\ STORM_END \in { e \in SummaryEnds : e >= STORM_START }
    /\ LAST_SUMMARY_POSTED = None
    /\ workers = [strike |-> 0, summary |-> 0]
    /\ sent = <<>>
    /\ summaries = <<>>
    /\ did = Did("start", 0, FALSE)
    /\ threads = NoThreads

(* generate_and_post_storm_summary(STORM_START, STORM_END), lines 388-422: *)
(* the summary is built and its publish thread started.                    *)
GenerateAndPostStormSummary ==
    /\ summaries = <<>>
    /\ summaries' = Append(summaries,
                           GenerateStormSummary(STRIKE_HISTORY, STORM_START,
                                                STORM_END, wall))
    /\ workers' = [workers EXCEPT !.summary = @ + 1]
    /\ did' = Did("summary", wall, FALSE)
    /\ UNCHANGED <<wall, limiter, post_times, admitted, STRIKE_HISTORY,
                   STORM_ACTIVE, STORM_START, STORM_END, LAST_SUMMARY_POSTED,
                   sent>>
    /\ UNCHANGED <<gate_vars, save_vars, threads>>

NextSummary == GenerateAndPostStormSummary

SpecSummary == InitSummary /\ [][NextSummary]_vars

----------------------------------------------------------------------------
(* Vocabulary of the properties.                                           *)

RateReasons == {"rate_limit_15m", "rate_limit_hour", "rate_limit_day"}

WindowOf(reason) ==
    IF reason = "rate_limit_15m" THEN W15
    ELSE IF reason = "rate_limit_hour" THEN WHour
    ELSE WDay

(* Recorded timestamps inside the trailing window of length w ending at T. *)
InTrailingWindow(T, w) ==
    { i \in DOMAIN state.post_timestamps :
        /\ state.post_timestamps[i] >= T - w
        /\ state.post_timestamps[i] <= T }

(* The rules of the decision algorithm as the specification words them, on *)
(* the state the last should_post left, in priority order 1..7.            *)
RuleApplies(n) ==
    LET now == last.now
        key == last.key
        lpk == state.last_post_by_key
        cnt(w) == Cardinality({ i \in DOMAIN state.post_timestamps :
                                  state.post_timestamps[i] >= now - w })
    IN  CASE n = 1 -> cfg.dry_run
          [] n = 2 -> now - started_at < cfg.startup_grace_s
          [] n = 3 -> key \in DOMAIN lpk /\ now - lpk[key] < cfg.dedupe_window_s
          [] n = 4 -> cnt(W15) >= cfg.max_per_15m
          [] n = 5 -> cnt(WHour) >= cfg.max_per_hour
          [] n = 6 -> cnt(WDay) >= cfg.max_per_day
          [] OTHER -> TRUE

(* The steps of the public calls, told by what they leave in last; the     *)
(* clock stands still during a call.                                       *)
ShouldPostStep == last'.op = "should_post" /\ clock' = clock

RecordPostStep == last'.op = "record_post" /\ clock' = clock

RestartStep == last'.op = "restart" /\ clock' = clock

ReasonOrder ==
    <<"dry_run", "startup_grace", "dedupe_window", "rate_limit_15m",
      "rate_limit_hour", "rate_limit_day", "ok">>

----------------------------------------------------------------------------
C2_FirstMatchingRule ==
    last.op = "should_post" =>
        \E n \in DOMAIN ReasonOrder :
            /\ last.decision.reason = ReasonOrder[n]
            /\ RuleApplies(n)
            /\ \A m \in 1..(n - 1) : ~RuleApplies(m)
            /\ last.decision.allow <=> (n = 7)

(* C3: after record_post for key k at time t (t = 0 included), should_post *)
(* for k at t2 outside dry-run and startup grace is denied with            *)
(* dedupe_window when t2 - t < dedupe_window_s, and is not denied with     *)
(* dedupe_window when t2 - t >= dedupe_window_s or when only other keys    *)
(* were recorded.                                                          *)
C3_DedupeWindow ==
    (/\ last.op = "should_post"
     /\ ~cfg.dry_run
     /\ last.now - started_at >= cfg.startup_grace_s)
    => LET t == lastRec[last.key]
       IN  IF t # NoTimestamp /\ last.now - t < cfg.dedupe_window_s
             THEN last.decision.reason = "dedupe_window"
           ELSE last.decision.reason # "dedupe_window"

(* C4, as claimed: every should_post whose timestamp is inside the startup *)
(* grace is denied with startup_grace and retry_after = grace - uptime,    *)
(* whatever the persisted state.                                           *)
C4_GraceAlways ==
    (last.op = "should_post" /\ last.now - started_at < cfg.startup_grace_s)
    => /\ last.decision.reason = "startup_grace"
       /\ last.decision.retry_after_s =
              cfg.startup_grace_s - (last.now - started_at)

(* C4, amended: the same on a gate that is not configured dry-run; a       *)
(* dry-run gate answers dry_run with retry_after 0 instead.  Either way    *)
(* the call is denied, whatever the persisted state.                       *)
C4_GraceUnlessDryRun ==
    (last.op = "should_post" /\ last.now - started_at < cfg.startup_grace_s)
    => /\ ~last.decision.allow
       /\ IF cfg.dry_run
            THEN last.decision.reason = "dry_run" /\ last.decision.retry_after_s = 0
          ELSE /\ last.decision.reason = "startup_grace"
               /\ last.decision.retry_after_s =
                      cfg.startup_grace_s - (last.now - started_at)

(* A should_post inside the grace of a process that holds recorded posts   *)
(* and a dedupe entry for the event's key.                                 *)
C4_Witness ==
    /\ ~cfg.dry_run
    /\ last.op = "should_post"
    /\ last.decision.reason = "startup_grace"
    /\ state.post_timestamps # <<>>
    /\ last.key \in DOMAIN state.last_post_by_key

(* C5: when should_post at time now denies with a rate limit and           *)
(* retry_after r, a should_post at now + r with no record_post in between  *)
(* no longer counts the oldest timestamp of that window.                   *)
C5_RetryAfterFallsOut ==
    [][(/\ ShouldPostStep
        /\ last.op = "should_post"
        /\ last.decision.reason \in RateReasons
        /\ last'.now = last.now + last.decision.retry_after_s)
       => LET w == WindowOf(last.decision.reason)
              in_window == { ts \in SeqValues(state.post_timestamps) :
                               ts >= last.now - w }
          IN  in_window # {} => MinOf(in_window) < last'.now - w]_vars

(* C6: every decision of should_post has retry_after_s >= 0, also for a    *)
(* timestamp earlier than the process start or than a recorded post;       *)
(* allowed decisions and dry_run denials have retry_after_s = 0.           *)
C6_RetryAfterNonNegative ==
    last.op = "should_post" =>
        /\ last.decision.retry_after_s >= 0
        /\ (last.decision.allow \/ last.decision.reason = "dry_run")
              => last.decision.retry_after_s = 0

(* A rate-limit denial for a stale event: its timestamp is earlier than a  *)
(* recorded post, in a process that was restarted.                         *)
C6_Witness ==
    /\ last.op = "should_post"
    /\ last.decision.reason \in RateReasons
    /\ started_at > 0
    /\ \E ts \in SeqValues(state.post_timestamps) : ts > last.now

(* The timestamps a later should_post can carry: the clock, now or later,  *)
(* or the timestamp of the event itself.                                   *)
LaterNows == { NowOf(ev, clk) : ev \in Events, clk \in { t \in Times : t >= clock } }

(* C7, as claimed: should_post never writes the state file, and it changes *)
(* the decision of no later should_post (a repeat of the same call         *)
(* included).                                                              *)
C7_PureRead ==
    [][ShouldPostStep =>
          /\ file' = file
          /\ \A key \in Keys, now \in LaterNows :
                ShouldPostDecision(state', cfg, started_at, key, now)
                   = ShouldPostDecision(state, cfg, started_at, key, now)]_vars

(* C7, amended: should_post never writes the state file, and it changes    *)
(* the decision of no later should_post whose timestamp is not earlier     *)
(* than its own (a repeat of the same call included).                      *)
C7_PureReadForward ==
    [][ShouldPostStep =>
          /\ file' = file
          /\ \A key \in Keys, now \in LaterNows :
                now >= last'.now =>
                   ShouldPostDecision(state', cfg, started_at, key, now)
                      = ShouldPostDecision(state, cfg, started_at, key, now)]_vars

(* A should_post has pruned the in-memory list and the file still holds    *)
(* the pruned timestamp.                                                   *)
C7_Witness ==
    /\ last.op = "should_post"
    /\ file.exists
    /\ Len(state.post_timestamps) < Len(file.post_timestamps)

(* C8: record_post at time now appends now to post_timestamps, sets        *)
(* last_post_by_key[dedupe_key] and last_post_at to now, leaves the other  *)
(* keys' entries as they were, whatever should_post said before; when it   *)
(* returns the file holds exactly the in-memory state.                     *)
C8_RecordPost ==
    [][RecordPostStep =>
          LET now == last'.now
              key == last'.key
              lpk == state.last_post_by_key
              new == state'.last_post_by_key
              members == file'.last_post_by_key
          IN  /\ state'.post_timestamps = Append(state.post_timestamps, now)
              /\ DOMAIN new = DOMAIN lpk \cup {key}
              /\ new[key] = now
              /\ \A k \in DOMAIN lpk \ {key} : new[k] = lpk[k]
              /\ state'.last_post_at = now
              /\ file'.exists
              /\ file'.post_timestamps = state'.post_timestamps
              /\ file'.last_post_at = state'.last_post_at
              /\ SeqValues(members) = { <<k, new[k]>> : k \in DOMAIN new }
              /\ Len(members) = Cardinality(DOMAIN new)]_vars

(* record_post on a dry-run gate, which allows nothing, with the other     *)
(* key's entry in place.                                                   *)
C8_Witness ==
    /\ last.op = "record_post"
    /\ cfg.dry_run
    /\ Len(state.post_timestamps) = 2
    /\ DOMAIN state.last_post_by_key = Keys
    /\ file.post_timestamps = state.post_timestamps

(* C9: saving a gate state of integer timestamps and loading it again      *)
(* yields the same post_timestamps, last_post_by_key and last_post_at.     *)
C9_RoundTrip ==
    LET loaded == LoadState(SavePayload(state))
    IN  /\ loaded.post_timestamps = state.post_timestamps
        /\ loaded.last_post_by_key = state.last_post_by_key
        /\ loaded.last_post_at = state.last_post_at

(* A controller constructed from a file that record_post wrote: two        *)
(* timestamps and both keys came back.                                     *)
C9_Witness ==
    /\ last.op = "restart"
    /\ file.exists
    /\ Len(state.post_timestamps) = 2
    /\ DOMAIN state.last_post_by_key = Keys
    /\ state.last_post_at = state.post_timestamps[2]

(* C10: when a process that made only record_post calls is restarted on    *)
(* the same state path, the new controller returns, for every key and      *)
(* every timestamp past its startup grace, the decision the old one would  *)
(* have returned.                                                          *)
C10_SurvivesRestart ==
    [][(RestartStep /\ only_records) =>
          \A key \in Keys, now \in LaterNows :
             now - started_at' >= cfg.startup_grace_s =>
                ShouldPostDecision(state', cfg, started_at', key, now)
                   = ShouldPostDecision(state, cfg, started_at, key, now)]_vars

(* After such a restart and past the new grace, a post recorded by the old *)
(* process makes the new one deny with dedupe_window.                      *)
C10_Witness ==
    /\ from_records
    /\ last.op = "should_post"
    /\ last.decision.reason = "dedupe_window"
    /\ last.now - started_at >= cfg.startup_grace_s
    /\ state.post_timestamps # <<>>

----------------------------------------------------------------------------
(* Vocabulary of the properties of the state file and of the node.         *)

ResetStep == last'.op = "reset_state" /\ clock' = clock

(* The state of a controller constructed where there is no state file.     *)
ColdState == LoadState(MissingFile)

(* The timestamps of the strike history h, in its order.                   *)
StrikeTimes(h) == [i \in DOMAIN h |-> h[i][1]]

(* The admitted timestamps inside the trailing hour that ends at T.        *)
AdmittedInHour(T) ==
    { i \in DOMAIN admitted : admitted[i] >= T - OneHour /\ admitted[i] <= T }

(* C11: whatever step of a save the process dies at, the live state file   *)
(* holds the complete state from before the save or the complete new       *)
(* state: every step leaves the file as it was or puts the whole payload   *)
(* of the state being saved in its place, and the file is never a partial  *)
(* text.                                                                   *)
C11_AllOrNothing ==
    [][/\ \/ file' = file
          \/ saving = "replace" /\ file' = SavePayload(state)
       /\ file'.exists => IsJsonObject(file')]_vars

(* The process died while the temporary file was partly written: the new   *)
(* process loaded the complete older state, without the post whose save    *)
(* was cut.                                                                *)
C11_Witness ==
    /\ last.op = "restart"
    /\ tmp = PartialText
    /\ file.exists
    /\ state = LoadState(file)
    /\ Len(state.post_timestamps) = 1
    /\ \E k \in Keys :
          lastRec[k] # NoTimestamp /\ lastRec[k] \notin SeqValues(state.post_timestamps)

(* C12: on a state file that is absent or malformed, construction and      *)
(* every later should_post and record_post return without raising, and     *)
(* until the first record_post should_post decides as a gate without       *)
(* prior history does.                                                     *)
C12_MalformedAsEmpty ==
    /\ last.decision # Raises
    /\ (last.op = "should_post" /\ \A k \in Keys : lastRec[k] = NoTimestamp)
          => last.decision =
                ShouldPostDecision(EmptyState, cfg, started_at, last.key, last.now)

(* C13: reset_state leaves the empty state in memory and on disk, whatever *)
(* the state before it, so that the calls after it decide as they do on a  *)
(* cold gate of the same process: a should_post, and a should_post after a *)
(* should_post and record_post, for every key and timestamps that do not   *)
(* go back.                                                                *)
C13_ResetDeterministic ==
    [][ResetStep =>
          /\ state' = EmptyState
          /\ file'.exists
          /\ LoadState(file') = EmptyState
          /\ \A k1 \in Keys, n1 \in LaterNows :
                /\ ShouldPostDecision(state', cfg, started_at, k1, n1)
                      = ShouldPostDecision(ColdState, cfg, started_at, k1, n1)
                /\ \A k2 \in Keys, n2 \in { n \in LaterNows : n >= n1 } :
                      ShouldPostDecision(
                          RecordState(ShouldPostState(state', cfg, started_at, k1, n1),
                                      k1, n1),
                          cfg, started_at, k2, n2)
                      = ShouldPostDecision(
                          RecordState(ShouldPostState(ColdState, cfg, started_at, k1, n1),
                                      k1, n1),
                          cfg, started_at, k2, n2)]_vars

(* reset_state was called in a process that had posts on file, and the     *)
(* first should_post after it is allowed.                                  *)
C13_Witness ==
    /\ last.op = "should_post"
    /\ last.decision.allow
    /\ state = EmptyState
    /\ file = SavePayload(EmptyState)
    /\ clock > 0

(* C14: whatever min_interval_seconds the limiter was constructed with, no *)
(* two timestamps that can_post allowed are less than min_interval_seconds *)
(* apart.                                                                  *)
C14_MinSpacing ==
    \A i, j \in DOMAIN admitted :
        i < j => admitted[j] - admitted[i] >= limiter.min_interval

(* C15: the timestamps can_post allowed inside any trailing hour number at *)
(* most max_per_hour, and after every call the list holds only timestamps  *)
(* of the trailing hour of that call.                                      *)
C15_HourlyCap ==
    /\ \A T \in ThrottleTimes : Cardinality(AdmittedInHour(T)) <= limiter.max_per_hour
    /\ did.op = "can_post" =>
          \A i \in DOMAIN post_times :
              post_times[i] >= did.now - OneHour /\ post_times[i] <= did.now

(* A call refused by the cap, after an older admission was trimmed.        *)
C15_Witness ==
    /\ did.op = "can_post"
    /\ ~did.allowed
    /\ limiter.min_interval = 0
    /\ Len(post_times) = limiter.max_per_hour
    /\ Len(admitted) > Len(post_times)

(* C16: every publish attempt is made for a message that both should_post  *)
(* and can_post were asked about and allowed.                              *)
C16_BothAllow ==
    \A i \in DOMAIN sent : sent[i].allowed_by = {"should_post", "can_post"}

(* C17: a strike makes the session Active exactly when it was not Active   *)
(* and the history entries within the trailing STORM_WINDOW of now, the    *)
(* new one included, number at least STORM_MIN_STRIKES; STORM_START is     *)
(* then the earliest timestamp in that window and STORM_END is now.  The   *)
(* session is not Active with fewer than STORM_MIN_STRIKES strikes in the  *)
(* history, and strikes at 0, 100, 200 make it Active at the third, with   *)
(* STORM_START = 0.                                                        *)
C17_StormOnset ==
    [][did'.op = "strike" =>
          LET now     == did'.now
              h       == STRIKE_HISTORY'
              in_win  == { i \in DOMAIN h : h[i][1] >= now - STORM_WINDOW }
              becomes == ~STORM_ACTIVE /\ STORM_ACTIVE'
          IN  /\ becomes <=>
                    (~STORM_ACTIVE /\ Cardinality(in_win) >= STORM_MIN_STRIKES)
              /\ becomes =>
                    /\ STORM_START' = MinOf({ h[i][1] : i \in in_win })
                    /\ STORM_END' = now
              /\ STORM_ACTIVE' => Len(h) >= STORM_MIN_STRIKES
              /\ StrikeTimes(h) = <<0, 100, 200>> =>
                    becomes /\ STORM_START' = 0]_vars

(* A session that started at the fourth strike, on the earliest strike of  *)
(* the trailing window, which is not the first strike of the history.      *)
C17_Witness ==
    /\ did.op = "strike"
    /\ STORM_ACTIVE
    /\ Len(STRIKE_HISTORY) = 4
    /\ STRIKE_HISTORY[1][1] = 0
    /\ STORM_START = 100
    /\ STORM_END = did.now

(* C18: the session goes from Active to not Active only in the periodic    *)
(* check, with now - STORM_END >= STORM_GAP_TO_END; STORM_END keeps its    *)
(* value there, and LAST_SUMMARY_POSTED is cleared (None after the check,  *)
(* or set by the summary the same check went on to start); while the       *)
(* session stays not Active, STORM_END does not change.                    *)
C18_StormEnd ==
    [][/\ (STORM_ACTIVE /\ ~STORM_ACTIVE') =>
             /\ did'.op = "tick"
             /\ did'.now - STORM_END >= STORM_GAP_TO_END
             /\ STORM_END' = STORM_END
             /\ \/ LAST_SUMMARY_POSTED' = None
                \/ /\ LAST_SUMMARY_POSTED' = did'.now
                   /\ Len(summaries') = Len(summaries) + 1
       /\ (~STORM_ACTIVE /\ ~STORM_ACTIVE') => STORM_END' = STORM_END]_vars

(* The periodic check has ended a session at the quiet gap, and a strike   *)
(* came after while the session stayed not Active.                         *)
C18_Witness ==
    /\ did.op = "strike"
    /\ ~STORM_ACTIVE
    /\ STORM_START # None
    /\ LAST_SUMMARY_POSTED = None
    /\ Len(STRIKE_HISTORY) = 4
    /\ did.now - STORM_END >= STORM_GAP_TO_END

(* C19: for a session with any start and end >= 0 (0 included), the        *)
(* periodic check starts no summary while the session is Active or before  *)
(* now - STORM_END >= SUMMARY_DELAY; the first check with the session not  *)
(* Active and now - STORM_END >= SUMMARY_DELAY starts exactly one and sets *)
(* LAST_SUMMARY_POSTED; no later check starts one for that session, and    *)
(* no other step starts one.                                               *)
C19_SummaryOnce ==
    [][LET now     == did'.now
           started == Len(summaries') - Len(summaries)
           had_one == \E i \in DOMAIN summaries :
                         /\ summaries[i].start = STORM_START
                         /\ summaries[i].end = STORM_END
       IN  /\ did'.op # "tick" => started = 0
           /\ did'.op = "tick" =>
                 /\ started \in {0, 1}
                 /\ (STORM_ACTIVE' \/ STORM_END = None
                        \/ now - STORM_END < SUMMARY_DELAY \/ had_one)
                       => started = 0
                 /\ (/\ ~STORM_ACTIVE'
                     /\ STORM_START # None
                     /\ STORM_END # None
                     /\ now - STORM_END >= SUMMARY_DELAY
                     /\ ~had_one)
                       => started = 1 /\ LAST_SUMMARY_POSTED' = now]_vars

(* C20: the strike history never holds more than HISTORY_MAXLEN entries; a *)
(* strike at full length drops exactly the oldest entry and appends the    *)
(* new one, a strike below it appends and drops nothing, the entries kept  *)
(* stay in their order, and no other step changes the history.             *)
C20_BoundedFifo ==
    [][LET h  == STRIKE_HISTORY
           h2 == STRIKE_HISTORY'
       IN  /\ Len(h2) <= HISTORY_MAXLEN
           /\ did'.op = "strike" =>
                 /\ h2[Len(h2)][1] = wall'
                 /\ IF Len(h) = HISTORY_MAXLEN
                      THEN /\ Len(h2) = HISTORY_MAXLEN
                           /\ \A i \in 1..(HISTORY_MAXLEN - 1) : h2[i] = h[i + 1]
                    ELSE /\ Len(h2) = Len(h) + 1
                         /\ \A i \in DOMAIN h : h2[i] = h[i]
           /\ did'.op # "strike" => h2 = h]_vars

(* The history at full length after two entries were dropped: the oldest   *)
(* entry left is the third strike.                                         *)
C20_Witness ==
    /\ Len(STRIKE_HISTORY) = HISTORY_MAXLEN
    /\ STRIKE_HISTORY[1][1] = 3
    /\ STRIKE_HISTORY[HISTORY_MAXLEN][1] = HISTORY_MAXLEN + 2

(* The sum of the entries of a sequence of numbers.                        *)
RECURSIVE SumSeq(_)
SumSeq(q) == IF q = <<>> THEN 0 ELSE q[1] + SumSeq(Tail(q))

(* The history entries whose timestamp lies in [a, b].                     *)
SliceOf(a, b) ==
    { i \in DOMAIN STRIKE_HISTORY :
        a <= STRIKE_HISTORY[i][1] /\ STRIKE_HISTORY[i][1] <= b }

(* The least n >= 1 with n * w >= d.                                       *)
LeastCover(d, w) ==
    CHOOSE n \in 1..(d + 1) : n * w >= d /\ (n = 1 \/ (n - 1) * w < d)

(* C21: a summary of a non-empty slice has                                 *)
(* max(1, ceil(max(end - start, B) / B)) bins; every strike of the slice   *)
(* is counted in the bin floor((t - start) / B), or in the last bin when   *)
(* that index reaches the number of bins, so the bins sum to the number of *)
(* strikes of the slice; the peak is the largest bin; seven strikes two    *)
(* minutes apart over twelve minutes give three bins that sum to seven.    *)
C21_Binning ==
    \A k \in DOMAIN summaries :
        LET s     == summaries[k]
            B     == SUMMARY_BIN_SIZE
            slice == SliceOf(s.start, s.end)
            span  == IF s.end - s.start >= B THEN s.end - s.start ELSE B
            n     == LeastCover(span, B)
            bins  == s.summary.bins
            binOf(i) ==
                LET idx == (STRIKE_HISTORY[i][1] - s.start) \div B
                IN  IF idx >= n THEN n ELSE idx + 1
        IN  slice # {} =>
              /\ ~s.summary.no_strikes
              /\ Len(bins) = n
              /\ \A b \in 1..n :
                    bins[b] = Cardinality({ i \in slice : binOf(i) = b })
              /\ SumSeq(bins) = Cardinality(slice)
              /\ s.summary.total = Cardinality(slice)
              /\ s.summary.peak \in SeqValues(bins)
              /\ \A b \in 1..n : bins[b] <= s.summary.peak
              /\ (/\ s.start = 0
                  /\ s.end = 720
                  /\ { STRIKE_HISTORY[i][1] : i \in slice }
                        = {0, 120, 240, 360, 480, 600, 720})
                    => Len(bins) = 3 /\ SumSeq(bins) = 7

(* A summary over [0, 600] whose strike at 600 has the index 2 of a third  *)
(* bin and was counted in the second and last one.                         *)
C21_Witness ==
    /\ summaries # <<>>
    /\ summaries[1].start = 0
    /\ summaries[1].end = 600
    /\ { STRIKE_HISTORY[i][1] : i \in SliceOf(0, 600) } = {0, 299, 300, 600}
    /\ summaries[1].summary.bins = <<2, 2>>
    /\ summaries[1].summary.peak = 2

(* A session over [a, b] has ended: the session is not Active and the      *)
(* globals hold its start and its last strike.                             *)
SessionEnded(a, b) ==
    ~STORM_ACTIVE /\ STORM_START = a /\ STORM_END = b

(* The summaries started for the interval [a, b].                          *)
SummariesOf(a, b) ==
    { i \in DOMAIN summaries : summaries[i].start = a /\ summaries[i].end = b }

(* Ends of sessions whose summary falls due within the clock of the model. *)
DueEnds == { b \in SessionTimes : b + SUMMARY_DELAY <= MaxOf(SessionTimes) }

(* C22: while the periodic check keeps running, every session that ended   *)
(* is followed by a summary for its own interval [STORM_START, STORM_END], *)
(* also when a new session starts before SUMMARY_DELAY has passed since    *)
(* its end, and no interval gets a second summary.                         *)
C22_SummaryPerSession ==
    /\ \A b \in DueEnds : \A a \in { t \in SessionTimes : t <= b } :
          SessionEnded(a, b) ~> (SummariesOf(a, b) # {})
    /\ [](\A a \in SessionTimes : \A b \in SessionTimes :
            Cardinality(SummariesOf(a, b)) <= 1)

(* C23: whenever the session is Active, LAST_SUMMARY_POSTED is None.       *)
C23_ClearedAtStart == STORM_ACTIVE => LAST_SUMMARY_POSTED = None

(* C23, as the code has it: LAST_SUMMARY_POSTED is cleared by the check    *)
(* that ends a session, not by the strike that starts one.  A strike       *)
(* leaves it as it was; the check that ends a session leaves it None, or   *)
(* the time of the summary the same check went on to start; and whenever   *)
(* it is set it is the time of the latest summary.                         *)
C23_ClearedAtEnd ==
    [][/\ did'.op = "strike" => LAST_SUMMARY_POSTED' = LAST_SUMMARY_POSTED
       /\ (STORM_ACTIVE /\ ~STORM_ACTIVE') =>
             \/ LAST_SUMMARY_POSTED' = None /\ summaries' = summaries
             \/ /\ LAST_SUMMARY_POSTED' = did'.now
                /\ Len(summaries') = Len(summaries) + 1
       /\ LAST_SUMMARY_POSTED' # None =>
             /\ summaries' # <<>>
             /\ summaries'[Len(summaries')].at = LAST_SUMMARY_POSTED']_vars

(* A second session, started after the summary of the first, has ended:    *)
(* the strike that started it left the time of that summary in place, and  *)
(* the check that ended it cleared it.                                     *)
C23_Witness ==
    /\ did.op = "tick"
    /\ ~STORM_ACTIVE
    /\ LAST_SUMMARY_POSTED = None
    /\ Len(summaries) = 1
    /\ summaries[1].end < STORM_START

(* C24: a strike while the session is Active sets STORM_END to now and     *)
(* appends to the history; the session stays Active, and STORM_START,      *)
(* LAST_SUMMARY_POSTED, the summaries and the limiter's list are as they   *)
(* were, whatever the number of strikes in the trailing window.            *)
C24_ActiveStrikeFrame ==
    [][(STORM_ACTIVE /\ did'.op = "strike") =>
          /\ STORM_ACTIVE'
          /\ STORM_END' = did'.now
          /\ STORM_START' = STORM_START
          /\ LAST_SUMMARY_POSTED' = LAST_SUMMARY_POSTED
          /\ summaries' = summaries
          /\ post_times' = post_times
          /\ Len(STRIKE_HISTORY') = Len(STRIKE_HISTORY) + 1
          /\ \A i \in DOMAIN STRIKE_HISTORY :
                STRIKE_HISTORY'[i] = STRIKE_HISTORY[i]]_vars

(* A strike in an Active session with three strikes in its trailing        *)
(* window, the earliest of them later than the start of the session.       *)
C24_Witness ==
    /\ did.op = "strike"
    /\ STORM_ACTIVE
    /\ Len(STRIKE_HISTORY) = 4
    /\ Len(RecentTimes(STRIKE_HISTORY, did.now)) = 3
    /\ RecentTimes(STRIKE_HISTORY, did.now)[1] > STORM_START
    /\ STORM_END = did.now

(* C25: with the interrupt handler and the periodic check interleaved,     *)
(* the session becomes not Active only while now - STORM_END >=            *)
(* STORM_GAP_TO_END holds for the check's now and the STORM_END of that    *)
(* moment, and a strike does not write STORM_END of a session that has     *)
(* ended: while the session stays not Active, STORM_END does not change.   *)
C25_AtomicSession ==
    [][/\ (STORM_ACTIVE /\ ~STORM_ACTIVE') =>
             threads.tick.now - STORM_END >= STORM_GAP_TO_END
       /\ (~STORM_ACTIVE /\ ~STORM_ACTIVE') => STORM_END' = STORM_END]_vars

(* C26: with can_post called by several publish threads at once, no two    *)
(* allowed calls have timestamps less than min_interval_seconds apart, and *)
(* the allowed timestamps inside any trailing hour number at most          *)
(* max_per_hour.                                                           *)
C26_AtomicThrottle ==
    /\ \A i, j \in DOMAIN admitted :
          (i # j /\ admitted[i] <= admitted[j]) =>
              admitted[j] - admitted[i] >= limiter.min_interval
    /\ \A T \in WorkerTimes :
          Cardinality(AdmittedInHour(T)) <= limiter.max_per_hour

(* C27: with two callers that each run should_post and, when allowed,      *)
(* record_post, the recorded timestamps inside any trailing 15-minute,     *)
(* 1-hour and 24-hour window number at most max_per_15m, max_per_hour and  *)
(* max_per_day; a post is recorded for a dedupe key only when none was     *)
(* recorded for it less than dedupe_window_s before; and the state file is *)
(* at every step the complete payload of one state of the gate.            *)
C27_AtomicGate ==
    [][/\ \A T \in Times :
             LET in_window(w) ==
                    { i \in DOMAIN state'.post_timestamps :
                        /\ state'.post_timestamps[i] >= T - w
                        /\ state'.post_timestamps[i] <= T }
             IN  /\ Cardinality(in_window(W15)) <= cfg.max_per_15m
                 /\ Cardinality(in_window(WHour)) <= cfg.max_per_hour
                 /\ Cardinality(in_window(WDay)) <= cfg.max_per_day
       /\ last'.op = "record_post" /\ file' # file =>
             \/ lastRec[last'.key] = NoTimestamp
             \/ last'.now - lastRec[last'.key] >= cfg.dedupe_window_s
       /\ file' = file \/ file' = SavePayload(state')
       /\ file'.exists => IsJsonObject(file')]_vars

(* Publish threads that were started and have not returned.                *)
Outstanding == workers.strike + workers.summary

(* C28: publishing is off the critical path.  While publish threads that   *)
(* never return are outstanding, the periodic check can always run and a   *)
(* strike interrupt can always be handled; a strike handled then appends   *)
(* its entry to the history and makes its session transition, and a check  *)
(* run then ends the session that is due to end and emits the summary that *)
(* is due.                                                                 *)
C28_OffCriticalPath ==
    /\ [](Outstanding > 0 =>
            /\ ENABLED Tick
            /\ Len(STRIKE_HISTORY) < MaxStrikes => ENABLED StrikeBounded)
    /\ [][Outstanding > 0 =>
            /\ did'.op = "strike" =>
                  /\ Len(STRIKE_HISTORY') = Len(STRIKE_HISTORY) + 1
                  /\ STRIKE_HISTORY'[Len(STRIKE_HISTORY')][1] \in
                        {did'.now + dt : dt \in Drift}
                  /\ STORM_ACTIVE => STORM_ACTIVE' /\ STORM_END' = did'.now
                  /\ Len(RecentTimes(STRIKE_HISTORY', did'.now))
                        >= STORM_MIN_STRIKES => STORM_ACTIVE'
                  /\ workers'.strike = workers.strike + 1
            /\ did'.op = "tick" =>
                  /\ StormEnds(STORM_ACTIVE, STORM_END, did'.now)
                        => ~STORM_ACTIVE'
                  /\ Len(summaries') > Len(summaries)
                        => /\ LAST_SUMMARY_POSTED' = did'.now
                           /\ workers'.summary = workers.summary + 1
                  /\ (~STORM_ACTIVE /\ SummaryDue(FALSE, STORM_START, STORM_END,
                                                  LAST_SUMMARY_POSTED, did'.now))
                        => Len(summaries') = Len(summaries) + 1]_vars

(* Three strikes were handled and none of their publish threads returned;  *)
(* the session they started has ended and its summary was emitted by a     *)
(* check, whose own publish thread has not returned either.                *)
C28_Witness ==
    /\ workers.strike = Len(STRIKE_HISTORY)
    /\ workers.strike >= STORM_MIN_STRIKES
    /\ workers.summary = 1
    /\ Len(summaries) = 1
    /\ ~STORM_ACTIVE
    /\ did.op = "tick"


(* A publish thread ended without a post: the throttle denied it or the    *)
(* publish raised.                                                         *)
PublishLost(d) ==
    \/ d.op = "post_bluesky" /\ ~d.allowed
    \/ d.op = "post_bluesky_failed"

(* C29: a denied or failed publish is not recorded in the gate and is not  *)
(* retried.  The step of a publish thread that ends without a post leaves  *)
(* the gate's state and file as they were and makes no record_post call,   *)
(* leaves the strike history and the storm session as they were, sends     *)
(* nothing, and ends the thread without starting another; after it the     *)
(* periodic check and the strike handler can run as before.                *)
C29_LostPublish ==
    /\ [][PublishLost(did') =>
            /\ state' = state /\ file' = file /\ lastRec' = lastRec
            /\ last'.op # "record_post"
            /\ UNCHANGED <<STRIKE_HISTORY, STORM_ACTIVE, STORM_START, STORM_END,
                           LAST_SUMMARY_POSTED, summaries>>
            /\ sent' = sent
            /\ Outstanding' = Outstanding - 1]_vars
    /\ [](PublishLost(did) =>
            /\ ENABLED Tick
            /\ Len(STRIKE_HISTORY) < MaxPublishStrikes => ENABLED StrikePublish)
    /\ [](state.post_timestamps = <<>> /\ ~file.exists)

(* A publish failed after the throttle allowed it, and a later one was     *)
(* denied by the throttle: no message was sent, the gate holds no record.  *)
C29_Witness ==
    /\ did.op = "post_bluesky" /\ ~did.allowed
    /\ Len(admitted) = 1
    /\ sent = <<>>
    /\ Outstanding > 0
    /\ state.post_timestamps = <<>>


(* C30: a should_post at time now that gets past the dry-run and the       *)
(* startup-grace checks leaves in post_timestamps exactly the timestamps   *)
(* that were >= now - 24 h, in their order, and in last_post_by_key        *)
(* exactly the entries that were >= now - 7 days; the decision it returns  *)
(* is the one the rules give on that pruned state.                         *)
C30_PrunedOnRead ==
    [][ShouldPostStep /\ last'.decision.reason \notin {"dry_run", "startup_grace"} =>
          LET now == last'.now
              lpk == state.last_post_by_key
          IN  /\ \A i \in DOMAIN state'.post_timestamps :
                    state'.post_timestamps[i] >= now - WDay
              /\ \A k \in DOMAIN state'.last_post_by_key :
                    state'.last_post_by_key[k] >= now - KeyTTL
              /\ state'.post_timestamps =
                    SelectSeq(state.post_timestamps, LAMBDA ts : ts >= now - WDay)
              /\ \A k \in DOMAIN lpk :
                    lpk[k] >= now - KeyTTL =>
                       /\ k \in DOMAIN state'.last_post_by_key
                       /\ state'.last_post_by_key[k] = lpk[k]
              /\ last'.decision = GateDecision(state', cfg, last'.key, now)]_vars

(* A should_post more than a day after two posts, the older of them more   *)
(* than 24 h back and the younger inside the 24 h: it dropped the older    *)
(* timestamp and kept the younger.                                         *)
C30_Witness ==
    /\ last.op = "should_post"
    /\ last.decision.reason \notin {"dry_run", "startup_grace"}
    /\ file.exists
    /\ Len(file.post_timestamps) = 2
    /\ Len(state.post_timestamps) = 1
    /\ state.post_timestamps[1] >= last.now - WDay
    /\ state.post_timestamps[1] < last.now - WHour
    /\ file.post_timestamps[1] < last.now - WDay


(* C31: while the main loop keeps running, a session that is Active with   *)
(* its last strike handled at b, and that no further strike reaches, is    *)
(* followed by a state where the session is Idle, STORM_END is still b,    *)
(* and a summary ending at b has been started.  While the session is       *)
(* Active STORM_END is the handler's time of the last strike recorded, and *)
(* a summary is started only by a check that leaves the session Idle.      *)
C31_StormEndLive ==
    /\ \A b \in DueEnds : \A n \in STORM_MIN_STRIKES..MaxBurstStrikes :
          (STORM_ACTIVE /\ STORM_END = b /\ Len(STRIKE_HISTORY) = n)
             ~> \/ Len(STRIKE_HISTORY) > n
                \/ /\ ~STORM_ACTIVE
                   /\ STORM_END = b
                   /\ \E i \in DOMAIN summaries : summaries[i].end = b
    /\ [](STORM_ACTIVE =>
            STRIKE_HISTORY[Len(STRIKE_HISTORY)][1] \in
               {STORM_END + dt : dt \in Drift})
    /\ [][Len(summaries') > Len(summaries) =>
            /\ ~STORM_ACTIVE'
            /\ summaries'[Len(summaries')].end = STORM_END
            /\ wall' - STORM_END >= SUMMARY_DELAY]_vars

(* Three strikes started a session whose last strike came at 300; no other *)
(* strike followed; a check has left the session Idle with STORM_END = 300 *)
(* and the summary of [100, 300] started.                                  *)
C31_Witness ==
    /\ Len(STRIKE_HISTORY) = STORM_MIN_STRIKES
    /\ ~STORM_ACTIVE
    /\ STORM_START = 100
    /\ STORM_END = 300
    /\ Len(summaries) = 1
    /\ summaries[1].end = 300
    /\ did.op = "tick"


(* The step of a publish thread: post_bluesky ran to its end.              *)
PublishStep == did'.op \in {"post_bluesky", "post_bluesky_failed"}

(* C32: the throttle records an admission when it decides.  A can_post     *)
(* that allows leaves the list trimmed to the last hour with its own time  *)
(* appended, whether the publish then succeeds or fails; one that denies   *)
(* leaves the list trimmed and nothing else; and every admission of the    *)
(* last hour, of a failed publish too, counts: a call less than            *)
(* min_interval after one is denied, and a call with max_per_hour of them  *)
(* is denied.                                                              *)
C32_AdmitAtDecision ==
    [][PublishStep =>
          LET now     == wall
              trimmed == SelectSeq(post_times, LAMBDA t : t >= now - OneHour)
              recent  == { i \in DOMAIN admitted : admitted[i] >= now - OneHour }
          IN  /\ did'.allowed => post_times' = Append(trimmed, now)
              /\ ~did'.allowed => post_times' = trimmed
              /\ did'.op = "post_bluesky_failed" =>
                    /\ sent' = sent
                    /\ admitted' = Append(admitted, now)
                    /\ post_times'[Len(post_times')] = now
              /\ (\E i \in recent : now - admitted[i] < limiter.min_interval)
                    => ~did'.allowed
              /\ Cardinality(recent) >= limiter.max_per_hour => ~did'.allowed]_vars

(* Two publishes were admitted and both failed; a third call inside the    *)
(* hour was denied by the cap of two: nothing has been sent.               *)
C32_Witness ==
    /\ limiter.min_interval = 0
    /\ limiter.max_per_hour = 2
    /\ did.op = "post_bluesky" /\ ~did.allowed
    /\ Len(admitted) = 2
    /\ Len(post_times) = 2
    /\ sent = <<>>


(* C33: the summary is marked as posted by the check that starts it.  A    *)
(* step that starts a summary is a check, and it sets LAST_SUMMARY_POSTED  *)
(* to its own time and starts one publish thread; the step of a publish    *)
(* thread, admitted, denied or failed, leaves LAST_SUMMARY_POSTED and the  *)
(* summaries started as they were; and no interval is given a second       *)
(* summary, whatever became of the publish of the first.                   *)
C33_MarkedAtDispatch ==
    /\ [][Len(summaries') > Len(summaries) =>
            /\ did'.op = "tick"
            /\ Len(summaries') = Len(summaries) + 1
            /\ LAST_SUMMARY_POSTED' = did'.now
            /\ summaries'[Len(summaries')].at = did'.now
            /\ workers'.summary = workers.summary + 1]_vars
    /\ [][PublishStep =>
            /\ LAST_SUMMARY_POSTED' = LAST_SUMMARY_POSTED
            /\ summaries' = summaries]_vars
    /\ [](\A i \in DOMAIN summaries : \A j \in DOMAIN summaries :
            (summaries[i].start = summaries[j].start
               /\ summaries[i].end = summaries[j].end) => i = j)

(* The summary started at 3800 was not published (its thread ended and no  *)
(* summary was sent); a check at a later time has run and started no other *)
(* one.                                                                    *)
C33_Witness ==
    /\ Len(summaries) = 1
    /\ workers.summary = 0
    /\ \A i \in DOMAIN sent : sent[i].kind # "summary"
    /\ LAST_SUMMARY_POSTED = summaries[1].at
    /\ did.op = "tick"
    /\ did.now > summaries[1].at


====
